---- MODULE Spec2Model ----
(***************************************************************************)
(* A model of the static code-analysis engine of agent-tools               *)
(* (src/src/agent_tools/code): the architecture analyzer (import graph,    *)
(* DFS cycle detection, layer violations), the complexity analyzer         *)
(* (cyclomatic complexity, nesting depth, severity score, severity bands)  *)
(* and the duplication analyzer of the refactor chain (body hashing and    *)
(* grouping).  Each analyzer has its own specification; the variables of   *)
(* the analyzers a specification does not run stay idle under it.          *)
(***************************************************************************)
EXTENDS Integers, Sequences, FiniteSets, TLC

VARIABLES
    \* architecture(path): the analysed tree
    root,           \* the parts of the target path
    files,          \* the .py files found under it
    \* architecture(path): locals
    arch_pc,        \* position in architecture()
    modules,        \* dict stem -> ModuleInfo
    dep_graph,      \* defaultdict stem -> set of local stems
    file_count,     \* len(py_files)
    enumerated_last, \* per stem, the parsable file that came last in py_files
    \* _find_cycles(graph): locals
    visited, rec_stack, path, cycles,
    todo,           \* per frame of dfs(): the neighbours its for loop has not reached yet
    roots_left,     \* the keys the outer for loop has not reached yet
    report,         \* the sections of the returned report
    \* complexity(path, threshold)
    source,         \* the analysed file: whether it parses, and its ast.Module
    threshold_arg,  \* the threshold argument (ThresholdNone: not given)
    cx_pc,          \* position in complexity()
    visit_list,     \* the function definitions in the order the visitor reaches them
    cur,            \* index in visit_list of the function being analysed
    walk_queue,     \* ast.walk's deque
    complexity,     \* _calculate_cyclomatic's accumulator
    all_functions,  \* list of FunctionMetrics
    threshold,      \* the threshold in force
    high, medium, low,
    cx_report,      \* the sections of the returned report
    \* refactor(path, focus="duplication")
    py_files,       \* the .py files in the order _collect_py_files returns them
    rf_pc,          \* position in refactor()
    rf_next,        \* index in py_files of the next file to extract
    rf_functions,   \* all_functions: list of function dicts
    all_issues,     \* list of RefactorIssue
    rf_report,      \* the returned plan
    \* the caller
    prev_report,    \* <<report>> of an earlier call on the same tree, else <<>>
    \* the entry of complexity(), architecture(), analyze(), refactor()
    analyzer,       \* the function called
    target,         \* Path(path): [parts, kind]
    fs_tree,        \* the entries below a directory target: [parts, kind]
    entry_pc,       \* "call", "collected", "returned", "report", "raised"
    entry_files,    \* py_files: the collected paths, in order
    entry_result,   \* the returned string, when it is an early return
    \* analyze(path, focus)
    an_path,        \* path, as text
    an_focus_arg,   \* the focus argument; "" is None
    an_tree,        \* what the files hold: [n_files, functions, arch]
    an_pc,          \* "call", "complexity", "architecture", "naming", "summary", "done"
    an_focus,       \* focus
    an_lines,       \* lines
    issues_found,
    all_recommendations,
    an_ran,         \* the analyzers called so far
    an_report,      \* the lines of the returned string
    \* refactor._analyze_complexity(path)
    chain_tree,     \* what the files hold: [n_files, functions]
    chain_pc,       \* "call", "lines", "after", "done"
    chain_result,   \* result: the lines of complexity(path)
    line_no,        \* index in chain_result of the line the for loop reaches next
    current_section, \* "high", "medium" or "None"
    current_func,   \* a text, or NoneText
    current_file,   \* a text, or NoneText
    current_line,   \* a number, or NoneLine
    current_details, \* list of texts
    chain_issues,   \* issues: list of RefactorIssue
    \* ToolManager.add / ToolManager.remove
    tool_defs,      \* the YAML files below tool_defs_dir: [path, data]
    module_files,   \* the Python modules below src_dir: paths
    test_files,     \* the test files below tests_dir: paths
    reg_call,       \* the last call: <<operation, name, description, parameters>>
    reg_result,     \* what it returned
    \* trace_call(file, tool_name, phase, data, trace_id)
    active_traces,  \* _active_traces: set of [trace_id, start_time]
    trace_log,      \* the lines of the log file: entries
    now,            \* the clock
    tc_call,        \* the last call: [phase, data, trace_id]
    tc_result,      \* what it returned (or that it raised)
    returned_live,  \* the trace ids a start returned and no end was called with since
    \* ExternalServerManager and its ExternalServer objects
    servers,        \* _servers: the names of the running servers
    ext,            \* per name, the ExternalServer object last made for it
    mcp_call,       \* the last call: <<operation, name>>
    stop_returned   \* the names whose stop() has returned during the last call

archVars == <<root, files, arch_pc, modules, dep_graph, file_count, enumerated_last,
              visited, rec_stack, path, cycles, todo, roots_left, report>>
dfsVars == <<visited, rec_stack, path, cycles, todo, roots_left>>

cxVars == <<source, threshold_arg, cx_pc, visit_list, cur, walk_queue, complexity,
            all_functions, threshold, high, medium, low, cx_report>>

rfVars == <<py_files, rf_pc, rf_next, rf_functions, all_issues, rf_report>>

callVars == <<prev_report>>

entryVars == <<analyzer, target, fs_tree, entry_pc, entry_files, entry_result>>

anVars == <<an_path, an_focus_arg, an_tree, an_pc, an_focus, an_lines, issues_found,
           all_recommendations, an_ran, an_report>>

chainVars == <<chain_tree, chain_pc, chain_result, line_no, current_section,
              current_func, current_file, current_line, current_details, chain_issues>>

regVars == <<tool_defs, module_files, test_files, reg_call, reg_result>>

traceVars == <<active_traces, trace_log, now, tc_call, tc_result, returned_live>>

mcpVars == <<servers, ext, mcp_call, stop_returned>>

newerVars == <<chainVars, regVars, traceVars, mcpVars>>

vars == <<archVars, cxVars, rfVars, callVars, entryVars, anVars, newerVars>>

(***************************************************************************)
(* The state of an analyzer that is not running                            *)
(***************************************************************************)
ArchIdle ==
    /\ root = <<>> /\ files = {} /\ arch_pc = "idle"
    /\ modules = <<>> /\ dep_graph = <<>> /\ file_count = 0 /\ enumerated_last = <<>>
    /\ visited = {} /\ rec_stack = {} /\ path = <<>> /\ cycles = <<>>
    /\ todo = <<>> /\ roots_left = {} /\ report = <<>>

\* threshold = None
ThresholdNone == -1

CxIdle ==
    /\ source = <<>> /\ threshold_arg = ThresholdNone /\ cx_pc = "idle"
    /\ visit_list = <<>> /\ cur = 0 /\ walk_queue = <<>> /\ complexity = 0
    /\ all_functions = <<>> /\ threshold = 0
    /\ high = <<>> /\ medium = <<>> /\ low = <<>> /\ cx_report = <<>>

RfIdle ==
    /\ py_files = <<>> /\ rf_pc = "idle" /\ rf_next = 0
    /\ rf_functions = <<>> /\ all_issues = <<>> /\ rf_report = <<>>

CallerIdle == prev_report = <<>>

EntryIdle ==
    /\ analyzer = "" /\ target = <<>> /\ fs_tree = {} /\ entry_pc = "idle"
    /\ entry_files = <<>> /\ entry_result = ""

AnIdle ==
    /\ an_path = <<>> /\ an_focus_arg = "" /\ an_tree = <<>> /\ an_pc = "idle"
    /\ an_focus = "" /\ an_lines = <<>> /\ issues_found = FALSE
    /\ all_recommendations = <<>> /\ an_ran = {} /\ an_report = <<>>

ChainIdle ==
    /\ chain_tree = <<>> /\ chain_pc = "idle" /\ chain_result = <<>> /\ line_no = 0
    /\ current_section = "None" /\ current_func = <<>> /\ current_file = <<>>
    /\ current_line = 0 /\ current_details = <<>> /\ chain_issues = <<>>

RegIdle ==
    /\ tool_defs = {} /\ module_files = {} /\ test_files = {}
    /\ reg_call = <<>> /\ reg_result = ""

TraceIdle ==
    /\ active_traces = {} /\ trace_log = <<>> /\ now = 0
    /\ tc_call = <<>> /\ tc_result = <<>> /\ returned_live = {}

McpIdle == servers = {} /\ ext = <<>> /\ mcp_call = <<>> /\ stop_returned = {}

NewerIdle == ChainIdle /\ RegIdle /\ TraceIdle /\ McpIdle

nonArchVars == <<cxVars, rfVars, callVars, entryVars, anVars, newerVars>>
NonArchIdle == CxIdle /\ RfIdle /\ CallerIdle /\ EntryIdle /\ AnIdle /\ NewerIdle
nonCxVars == <<archVars, rfVars, callVars, entryVars, anVars, newerVars>>
NonCxIdle == ArchIdle /\ RfIdle /\ CallerIdle /\ EntryIdle /\ AnIdle /\ NewerIdle
nonRfVars == <<archVars, cxVars, callVars, entryVars, anVars, newerVars>>
NonRfIdle == ArchIdle /\ CxIdle /\ CallerIdle /\ EntryIdle /\ AnIdle /\ NewerIdle
nonEntryVars == <<archVars, cxVars, rfVars, callVars, anVars, newerVars>>
NonEntryIdle == ArchIdle /\ CxIdle /\ RfIdle /\ CallerIdle /\ AnIdle /\ NewerIdle
nonAnVars == <<archVars, cxVars, rfVars, callVars, entryVars, newerVars>>
NonAnIdle == ArchIdle /\ CxIdle /\ RfIdle /\ CallerIdle /\ EntryIdle /\ NewerIdle

(***************************************************************************)
(* Generic helpers                                                         *)
(***************************************************************************)
RECURSIVE SubsetsUpTo(_, _)
\* The subsets of S with at most k elements.
SubsetsUpTo(S, k) ==
    IF k = 0 THEN {{}}
    ELSE LET prev == SubsetsUpTo(S, k - 1)
         IN  prev \cup {s \cup {x} : s \in prev, x \in S}

SeqToSet(s) == {s[i] : i \in 1..Len(s)}

Min(S) == CHOOSE m \in S : \A n \in S : m <= n

(***************************************************************************)
(* Bounds of the analysed trees                                            *)
(***************************************************************************)
\* Flat family: import statements in a directory of FlatStems files.
MaxEdges == 4
\* Layered family: number of files spread over the layer directories.
MaxLayeredFiles == 2

(***************************************************************************)
(* architecture.py                                                         *)
(***************************************************************************)
\* ModuleInfo.layer = None
NoLayer == -1

LAYER_ORDER ==
    [domain |-> 0, entities |-> 0, core |-> 0,
     application |-> 1, services |-> 1, usecases |-> 1, use_cases |-> 1,
     interface |-> 2, interfaces |-> 2, adapters |-> 2, controllers |-> 2,
     presenters |-> 2,
     infrastructure |-> 3, infra |-> 3, db |-> 3, database |-> 3,
     external |-> 3, frameworks |-> 3]

\* str.lower() on the path parts that occur in the analysed trees.
Lower(s) ==
    CASE s = "Core" -> "core"
      [] s = "Domain" -> "domain"
      [] s = "Infra" -> "infra"
      [] OTHER -> s

\* Path.parts of a file: the target's parts, the directories below it, the file name.
PathParts(rootParts, f) == rootParts \o f.dir \o <<f.stem \o ".py">>

\* Mutant of GetLayer: the last matching part wins.
GetLayerLastMatch(parts) ==
    LET hits == {i \in 1..Len(parts) : Lower(parts[i]) \in DOMAIN LAYER_ORDER}
    IN  IF hits = {} THEN NoLayer
        ELSE LAYER_ORDER[Lower(parts[CHOOSE i \in hits : \A j \in hits : j <= i])]

\* _get_layer: the first part, lower-cased, that is a key of LAYER_ORDER.
GetLayer(parts) ==
    LET hits == {i \in 1..Len(parts) : Lower(parts[i]) \in DOMAIN LAYER_ORDER}
    IN  IF hits = {} THEN NoLayer ELSE LAYER_ORDER[Lower(parts[Min(hits)])]

\* An import statement is [kind, module, names, level]; a dotted name is the
\* sequence of its segments.  "import a.b, c" has names {<<a,b>>, <<c>>}.
ImportStmt(dotted) ==
    [kind |-> "Import", module |-> <<>>, names |-> {dotted}, level |-> 0]
FromImport(mod, name, lvl) ==
    [kind |-> "ImportFrom", module |-> mod, names |-> {<<name>>}, level |-> lvl]

\* ImportVisitor.visit_Import: the top-level segment of every alias.
VisitImport(node) == {Head(alias) : alias \in node.names}

\* ImportVisitor.visit_ImportFrom: the module's top-level segment, or a marker
\* for "from . import x".
VisitImportFrom(node) ==
    IF node.module # <<>> THEN {Head(node.module)}
    ELSE IF node.level > 0 THEN {"__relative_" \o ToString(node.level) \o "__"}
    ELSE {}

\* ImportVisitor().visit(tree).imports
ImportsOf(stmts) ==
    UNION {IF s.kind = "Import" THEN VisitImport(s) ELSE VisitImportFrom(s)
           : s \in stmts}

\* The ModuleInfo _analyze_file returns for a file that parses.
ModuleInfo(rootParts, f) ==
    [name    |-> f.dir \o <<f.stem>>,
     path    |-> PathParts(rootParts, f),
     imports |-> ImportsOf(f.imports),
     layer   |-> GetLayer(PathParts(rootParts, f))]

\* Mutant of AnalyzeFile: a file that fails to parse yields a module without
\* imports in place of None.
AnalyzeFileEmptyOnError(rootParts, f) ==
    IF f.parsable THEN <<ModuleInfo(rootParts, f)>>
    ELSE <<[ModuleInfo(rootParts, f) EXCEPT !.imports = {}]>>

\* _analyze_file: <<info>>, or <<>> for the None of a file that does not parse
AnalyzeFile(rootParts, f) ==
    IF f.parsable THEN <<ModuleInfo(rootParts, f)>> ELSE <<>>

\* Mutant of Put: "modules.setdefault(stem, info)", the first file of a stem stays.
PutKeepFirst(dict, key, value) ==
    [k \in DOMAIN dict \cup {key} |-> IF k \in DOMAIN dict THEN dict[k] ELSE value]

\* dict[key] = value
Put(dict, key, value) ==
    [k \in DOMAIN dict \cup {key} |-> IF k = key THEN value ELSE dict[k]]

RECURSIVE AnalyzeFrom(_, _, _, _)
\* architecture(): "for py_file in py_files: info = _analyze_file(...);
\* if info: modules[py_file.stem] = info", from the i-th file on
AnalyzeFrom(rootParts, py_list, i, mods) ==
    IF i > Len(py_list) THEN mods
    ELSE LET info == AnalyzeFile(rootParts, py_list[i])
         IN  AnalyzeFrom(rootParts, py_list, i + 1,
                         IF info # <<>> THEN Put(mods, py_list[i].stem, info[1]) ELSE mods)

\* architecture(): the modules dict after the loop over py_files
AnalyzeInOrder(rootParts, py_list) == AnalyzeFrom(rootParts, py_list, 1, <<>>)

RECURSIVE Orderings(_)
\* The orders in which rglob can give the files.
Orderings(S) ==
    IF S = {} THEN {<<>>}
    ELSE UNION {{Append(o, x) : o \in Orderings(S \ {x})} : x \in S}

\* Per stem, the parsable file with the largest index in py_list.
LastOf(py_list) ==
    LET at(s) == {i \in 1..Len(py_list) : py_list[i].stem = s /\ py_list[i].parsable}
    IN  [s \in {py_list[i].stem : i \in {j \in 1..Len(py_list) : py_list[j].parsable}}
           |-> py_list[CHOOSE i \in at(s) : \A j \in at(s) : j <= i]]

\* Mutant of LocalDeps: "and imported != module_name" is missing.
LocalDepsWithSelf(mods, m) ==
    {imported \in mods[m].imports : imported \in DOMAIN mods}

\* architecture(): the local dependencies of module m.
LocalDeps(mods, m) ==
    {imported \in mods[m].imports : imported \in DOMAIN mods /\ imported # m}

\* graph.get(node, set())
Neighbors(graph, node) == IF node \in DOMAIN graph THEN graph[node] ELSE {}

\* path.index(neighbor)
Index(p, x) == Min({i \in 1..Len(p) : p[i] = x})

\* Mutant of CycleFrom: the whole path is taken, not the slice from neighbor on.
CycleFromWholePath(p, neighbor) == p \o <<neighbor>>

\* dfs(): cycle = path[cycle_start:] + [neighbor]
CycleFrom(p, neighbor) == SubSeq(p, Index(p, neighbor), Len(p)) \o <<neighbor>>

\* Mutant of OnStack: only an edge back to the root of the search closes a cycle.
OnStackRootOnly(neighbor, stack, p) == neighbor = p[1]

\* dfs(): "elif neighbor in rec_stack"
OnStack(neighbor, stack, p) == neighbor \in stack

\* frozenset(cycle[:-1])
CycleSet(cycle) == {cycle[i] : i \in 1..(Len(cycle) - 1)}

RECURSIVE DedupFrom(_, _, _)
\* architecture(): the loop over cycles from index i on, with seen_cycles = seen.
DedupFrom(cs, i, seen) ==
    IF i > Len(cs) THEN <<>>
    ELSE IF CycleSet(cs[i]) \notin seen /\ Cardinality(CycleSet(cs[i])) > 1
         THEN <<cs[i]>> \o DedupFrom(cs, i + 1, seen \cup {CycleSet(cs[i])})
         ELSE DedupFrom(cs, i + 1, seen)

RECURSIVE DedupFromMin3(_, _, _)
DedupFromMin3(cs, i, seen) ==
    IF i > Len(cs) THEN <<>>
    ELSE IF CycleSet(cs[i]) \notin seen /\ Cardinality(CycleSet(cs[i])) > 2
         THEN <<cs[i]>> \o DedupFromMin3(cs, i + 1, seen \cup {CycleSet(cs[i])})
         ELSE DedupFromMin3(cs, i + 1, seen)

\* Mutant of DedupCycles: "len(cycle_set) > 2" drops the two-module cycles.
DedupCyclesMin3(cs) == DedupFromMin3(cs, 1, {})

\* architecture(): the cycle lines of the Circular Dependencies section.
DedupCycles(cs) == DedupFrom(cs, 1, {})

\* Mutant of FindLayerViolations: "<=" in place of "<".
FindLayerViolationsLeq(mods, local_modules) ==
    {<<m, imported, mods[m].layer, mods[imported].layer>> :
        <<m, imported>> \in
            {pr \in (DOMAIN mods) \X local_modules :
                /\ mods[pr[1]].layer # NoLayer
                /\ pr[2] \in mods[pr[1]].imports
                /\ pr[2] \in DOMAIN mods
                /\ mods[pr[2]].layer # NoLayer
                /\ mods[pr[1]].layer <= mods[pr[2]].layer}}

\* _find_layer_violations: the list's members (its order is the iteration order
\* of the modules dict and of each import set).
FindLayerViolations(mods, local_modules) ==
    {<<m, imported, mods[m].layer, mods[imported].layer>> :
        <<m, imported>> \in
            {pr \in (DOMAIN mods) \X local_modules :
                /\ mods[pr[1]].layer # NoLayer
                /\ pr[2] \in mods[pr[1]].imports
                /\ pr[2] \in DOMAIN mods
                /\ mods[pr[2]].layer # NoLayer
                /\ mods[pr[1]].layer < mods[pr[2]].layer}}

(***************************************************************************)
(* The analysed trees of SpecArch                                          *)
(***************************************************************************)
FlatStems == {"a", "b", "c", "d"}
FlatTargets == FlatStems \cup {"os"}

\* A flat directory: every stem is a file; E is the set of its import statements.
FlatTree(E) ==
    {[dir |-> <<>>, stem |-> s, parsable |-> TRUE,
      imports |-> {ImportStmt(<<e[2]>>) : e \in {x \in E : x[1] = s}}]
     : s \in FlatStems}

FlatTrees == {FlatTree(E) : E \in SubsetsUpTo(FlatStems \X FlatTargets, MaxEdges)}

LayerDirs == {<<>>, <<"domain">>, <<"infrastructure">>}
LayerStems == {"user", "db"}
LayerImports ==
    {{},
     {ImportStmt(<<"db">>)},
     {ImportStmt(<<"user">>)},
     {FromImport(<<"infrastructure">>, "db", 0)},
     {FromImport(<<"infrastructure", "db">>, "x", 0)},
     {FromImport(<<>>, "db", 1)}}

LayeredFiles ==
    {[dir |-> d, stem |-> s, parsable |-> p, imports |-> i]
     : d \in LayerDirs, s \in LayerStems, p \in BOOLEAN, i \in LayerImports}

\* A set of files is a tree when no two of them have the same path.
IsTree(fs) == \A f, g \in fs : (f.dir = g.dir /\ f.stem = g.stem) => f = g

LayeredTrees == {fs \in SubsetsUpTo(LayeredFiles, MaxLayeredFiles) : fs # {} /\ IsTree(fs)}

Roots == {<<"proj">>, <<"Core", "proj">>}

InitArch ==
    /\ \/ root = <<"proj">> /\ files \in FlatTrees
       \/ root \in Roots /\ files \in LayeredTrees
    /\ arch_pc = "analyze"
    /\ modules = <<>> /\ dep_graph = <<>> /\ file_count = 0 /\ enumerated_last = <<>>
    /\ visited = {} /\ rec_stack = {} /\ path = <<>> /\ cycles = <<>>
    /\ todo = <<>> /\ roots_left = {} /\ report = <<>>
    /\ NonArchIdle

(***************************************************************************)
(* architecture(path), step by step                                        *)
(***************************************************************************)
\* "for py_file in py_files: ... modules[py_file.stem] = info": rglob's order is
\* the file system's, so of the files that share a stem any one may come last and
\* stay in the dict.  Then the dependency graph is built.
AnalyzeFiles ==
    /\ arch_pc = "analyze"
    /\ \E py_list \in Orderings(files) :
       \E mods \in {AnalyzeInOrder(root, py_list)} :
         LET keys == {m \in DOMAIN mods : LocalDeps(mods, m) # {}}
         IN  /\ modules' = mods
             /\ enumerated_last' = LastOf(py_list)
             /\ dep_graph' = [m \in keys |-> LocalDeps(mods, m)]
             /\ roots_left' = keys
    /\ file_count' = Cardinality(files)
    /\ arch_pc' = "dfs"
    /\ UNCHANGED <<nonArchVars, root, files, visited, rec_stack, path, cycles, todo, report>>

\* dfs(node): the first three statements.
Enter(node) ==
    /\ visited' = visited \cup {node}
    /\ rec_stack' = rec_stack \cup {node}
    /\ path' = Append(path, node)

\* "for node in graph: if node not in visited: dfs(node)"
DfsRoot ==
    /\ arch_pc = "dfs" /\ path = <<>>
    /\ \E node \in roots_left :
         /\ node \notin visited
         /\ roots_left' = roots_left \ {node}
         /\ Enter(node)
         /\ todo' = <<Neighbors(dep_graph, node)>>
    /\ UNCHANGED <<nonArchVars, root, files, arch_pc, modules, dep_graph, file_count, enumerated_last, cycles, report>>

DfsRootSkip ==
    /\ arch_pc = "dfs" /\ path = <<>>
    /\ \E node \in roots_left :
         /\ node \in visited
         /\ roots_left' = roots_left \ {node}
    /\ UNCHANGED <<nonArchVars, root, files, arch_pc, modules, dep_graph, file_count, enumerated_last,
                   visited, rec_stack, path, cycles, todo, report>>

\* "if neighbor not in visited: dfs(neighbor)"
DfsDescend ==
    /\ arch_pc = "dfs" /\ path # <<>>
    /\ \E neighbor \in todo[Len(todo)] :
         /\ neighbor \notin visited
         /\ Enter(neighbor)
         /\ todo' = Append([todo EXCEPT ![Len(todo)] = @ \ {neighbor}],
                           Neighbors(dep_graph, neighbor))
    /\ UNCHANGED <<nonArchVars, root, files, arch_pc, modules, dep_graph, file_count, enumerated_last,
                   cycles, roots_left, report>>

\* "elif neighbor in rec_stack: ... cycles.append(cycle)"
DfsBackEdge ==
    /\ arch_pc = "dfs" /\ path # <<>>
    /\ \E neighbor \in todo[Len(todo)] :
         /\ neighbor \in visited
         /\ OnStack(neighbor, rec_stack, path)
         /\ cycles' = Append(cycles, CycleFrom(path, neighbor))
         /\ todo' = [todo EXCEPT ![Len(todo)] = @ \ {neighbor}]
    /\ UNCHANGED <<nonArchVars, root, files, arch_pc, modules, dep_graph, file_count, enumerated_last,
                   visited, rec_stack, path, roots_left, report>>

\* a neighbour that is visited and no longer on the stack: nothing happens
DfsCross ==
    /\ arch_pc = "dfs" /\ path # <<>>
    /\ \E neighbor \in todo[Len(todo)] :
         /\ neighbor \in visited
         /\ ~OnStack(neighbor, rec_stack, path)
         /\ todo' = [todo EXCEPT ![Len(todo)] = @ \ {neighbor}]
    /\ UNCHANGED <<nonArchVars, root, files, arch_pc, modules, dep_graph, file_count, enumerated_last,
                   visited, rec_stack, path, cycles, roots_left, report>>

\* "path.pop(); rec_stack.remove(node)"
DfsReturn ==
    /\ arch_pc = "dfs" /\ path # <<>>
    /\ todo[Len(todo)] = {}
    /\ rec_stack' = rec_stack \ {path[Len(path)]}
    /\ path' = SubSeq(path, 1, Len(path) - 1)
    /\ todo' = SubSeq(todo, 1, Len(todo) - 1)
    /\ UNCHANGED <<nonArchVars, root, files, arch_pc, modules, dep_graph, file_count, enumerated_last,
                   visited, cycles, roots_left, report>>

\* "return cycles"
DfsDone ==
    /\ arch_pc = "dfs" /\ path = <<>> /\ roots_left = {}
    /\ arch_pc' = "report"
    /\ UNCHANGED <<nonArchVars, root, files, modules, dep_graph, file_count, enumerated_last, dfsVars, report>>

\* architecture(): the sections of the report.
FormatReport ==
    /\ arch_pc = "report"
    /\ LET violations == FindLayerViolations(modules, DOMAIN modules)
       IN  report' =
             [circular_section |-> cycles # <<>>,
              cycle_lines      |-> IF cycles # <<>> THEN DedupCycles(cycles) ELSE <<>>,
              layer_section    |-> violations # {},
              violation_lines  |-> violations,
              graph_lines      |-> dep_graph,
              analyzed         |-> file_count,
              summary          |-> cycles = <<>> /\ violations = {}]
    /\ arch_pc' = "done"
    /\ UNCHANGED <<nonArchVars, root, files, modules, dep_graph, file_count, enumerated_last, dfsVars>>

NextArch ==
    \/ AnalyzeFiles
    \/ DfsRoot \/ DfsRootSkip \/ DfsDescend \/ DfsBackEdge \/ DfsCross
    \/ DfsReturn \/ DfsDone
    \/ FormatReport

SpecArch == InitArch /\ [][NextArch]_vars

\* The caller calls architecture(path) a second time on the unchanged tree.
CallAgain ==
    /\ arch_pc = "done" /\ prev_report = <<>>
    /\ prev_report' = <<report>>
    /\ arch_pc' = "analyze"
    /\ modules' = <<>> /\ dep_graph' = <<>> /\ file_count' = 0 /\ enumerated_last' = <<>>
    /\ visited' = {} /\ rec_stack' = {} /\ path' = <<>> /\ cycles' = <<>>
    /\ todo' = <<>> /\ roots_left' = {} /\ report' = <<>>
    /\ UNCHANGED <<cxVars, rfVars, entryVars, anVars, newerVars, root, files>>

NextTwice == NextArch \/ CallAgain

SpecTwice == InitArch /\ [][NextTwice]_vars

(***************************************************************************)
(* Claims about the architecture analyzer (checked under SpecArch)         *)
(***************************************************************************)
ArchDone == arch_pc = "done"

RECURSIVE Closure(_, _)
\* The vertices reachable from S in zero or more steps.
Closure(graph, S) ==
    LET T == S \cup UNION {Neighbors(graph, x) : x \in S}
    IN  IF T = S THEN S ELSE Closure(graph, T)

\* The graph has a directed cycle: some vertex is reachable from its successors.
HasCycle(graph) == \E v \in DOMAIN graph : v \in Closure(graph, graph[v])

\* C1: the report has a Circular Dependencies section if and only if the local
\* dependency graph has a directed cycle, whatever vertex the DFS starts from
\* and in whatever order it visits the neighbours.
C1_CircularSectionIffCycle ==
    ArchDone => (report.circular_section <=> HasCycle(dep_graph))

\* C1 witness: a finished run on a graph with a four-module cycle, reported.
C1_Witness ==
    /\ ArchDone /\ report.circular_section /\ HasCycle(dep_graph)
    /\ \E i \in 1..Len(report.cycle_lines) : Len(report.cycle_lines[i]) = 5

\* A pair of modules is listed in the Layer Violations section.
Reported(m, imported) ==
    /\ report.layer_section
    /\ \E v \in report.violation_lines : v[1] = m /\ v[2] = imported

\* The import statement s of a file names the module of file g, as Python
\* resolves it from the analysed root.
StmtImportsFile(s, g) ==
    \/ s.kind = "Import" /\ <<g.stem>> \in s.names
    \/ s.kind = "ImportFrom" /\ s.level = 0 /\ s.module = g.dir /\ g.dir # <<>>
         /\ <<g.stem>> \in s.names
    \/ s.kind = "ImportFrom" /\ s.level = 0 /\ s.module = g.dir \o <<g.stem>>

ImportsFile(f, g) == f.parsable /\ \E s \in f.imports : StmtImportsFile(s, g)

UniqueStems == \A f, g \in files : f.stem = g.stem => f = g

\* C2: a file under domain/ that imports a module whose file lives under
\* infrastructure/ is listed in the Layer Violations section, whatever the
\* import form; an infrastructure file importing a domain module never is.
\* (Stated for trees whose root has no layer name, whose stems are unique and
\* whose two files parse.)
C2_DomainImportsInfraListed ==
    (ArchDone /\ root = <<"proj">> /\ UniqueStems) =>
        \A f, g \in files :
            /\ (/\ f.dir = <<"domain">> /\ g.dir = <<"infrastructure">>
                /\ g.parsable /\ ImportsFile(f, g))
               => Reported(f.stem, g.stem)
            /\ (/\ f.dir = <<"infrastructure">> /\ g.dir = <<"domain">>
                /\ g.parsable /\ ImportsFile(f, g))
               => ~Reported(f.stem, g.stem)

\* Every name that can be a vertex or an import target.
ArchNames == {f.stem : f \in files} \cup UNION {ImportsOf(f.imports) : f \in files}

\* C3: (importer, imported) is reported as a layer violation if and only if both
\* are vertices of the run, importer imports imported, both have a layer and
\* importer.layer < imported.layer; the line carries the two layers.
C3_ViolationIffInnerImportsOuter ==
    ArchDone =>
        /\ \A m, i \in ArchNames :
             Reported(m, i) <=>
                /\ m \in DOMAIN modules /\ i \in DOMAIN modules
                /\ i \in modules[m].imports
                /\ modules[m].layer \in 0..3 /\ modules[i].layer \in 0..3
                /\ modules[m].layer < modules[i].layer
        /\ \A v \in report.violation_lines :
             v[3] = modules[v[1]].layer /\ v[4] = modules[v[2]].layer

\* C3 witness: domain/user.py and infrastructure/db.py import each other; the
\* edge user -> db is reported and the edge db -> user is not.
C3_Witness ==
    /\ ArchDone
    /\ <<"user", "db", 0, 3>> \in report.violation_lines
    /\ "db" \in DOMAIN modules /\ "user" \in modules["db"].imports
    /\ ~Reported("db", "user")

\* C4: no two listed cycles have the same unordered vertex set, and the vertex
\* set of every cycle the DFS found is listed exactly once.
C4_CycleListedOnce ==
    ArchDone =>
        LET L == report.cycle_lines
        IN  /\ \A i, j \in 1..Len(L) : i # j => SeqToSet(L[i]) # SeqToSet(L[j])
            /\ \A k \in 1..Len(cycles) :
                 Cardinality({i \in 1..Len(L) : SeqToSet(L[i]) = SeqToSet(cycles[k])}) = 1

\* C4 witness: the loop a -> b -> c -> a alone, listed on exactly one line.
C4_Witness ==
    /\ ArchDone
    /\ DOMAIN dep_graph = {"a", "b", "c"}
    /\ dep_graph["a"] = {"b"} /\ dep_graph["b"] = {"c"} /\ dep_graph["c"] = {"a"}
    /\ Len(report.cycle_lines) = 1
    /\ SeqToSet(report.cycle_lines[1]) = {"a", "b", "c"}

ParsableFiles == {f \in files : f.parsable}
\* The module names a report mentions.
Mentioned ==
    UNION {SeqToSet(report.cycle_lines[i]) : i \in 1..Len(report.cycle_lines)}
    \cup UNION {{v[1], v[2]} : v \in report.violation_lines}
    \cup DOMAIN report.graph_lines
    \cup UNION {report.graph_lines[m] : m \in DOMAIN report.graph_lines}

\* C14: a file that fails to parse contributes no module, no edge and no issue
\* and is not mentioned, but is counted in the analysed total; the other files
\* are analysed as if it were absent.
C14_BrokenFileSkippedButCounted ==
    ArchDone =>
        /\ report.analyzed = Cardinality(files)
        /\ DOMAIN modules = {f.stem : f \in ParsableFiles}
        /\ \A s \in DOMAIN modules :
             /\ \E f \in ParsableFiles : f.stem = s /\ modules[s] = ModuleInfo(root, f)
             /\ Neighbors(report.graph_lines, s) =
                  {i \in modules[s].imports : i # s /\ \E g \in ParsableFiles : g.stem = i}
        /\ Mentioned \subseteq {f.stem : f \in ParsableFiles}

\* C14 witness: user.py imports db and db.py does not parse: two files analysed,
\* one module, no edge.
C14_Witness ==
    /\ ArchDone
    /\ report.analyzed = 2
    /\ \E f, g \in files :
         /\ f.stem = "user" /\ f.parsable /\ "db" \in ImportsOf(f.imports)
         /\ g.stem = "db" /\ ~g.parsable
    /\ DOMAIN modules = {"user"}
    /\ report.graph_lines = <<>>

\* C16: two calls on the same unchanged tree return the same report, whatever
\* the order in which the files are enumerated and the import sets iterated.
C16_SameTreeSameReport ==
    (ArchDone /\ prev_report # <<>>) => report = prev_report[1]

\* C18: every edge of the dependency graph goes from a vertex of the run to a
\* different vertex of the run: no self-edge, no edge to a module that is not a
\* file of the analysed set (standard library, relative-import marker).
C18_EdgesBetweenDistinctVertices ==
    arch_pc # "analyze" =>
        \A m \in DOMAIN dep_graph : \A n \in dep_graph[m] :
            /\ \E f \in ParsableFiles : f.stem = m
            /\ \E f \in ParsableFiles : f.stem = n
            /\ n # m

\* C18 witness: a.py imports a, os and b; its only edge goes to b.
C18_Witness ==
    /\ ArchDone
    /\ \E f \in files : f.stem = "a" /\ ImportsOf(f.imports) = {"a", "os", "b"}
    /\ dep_graph["a"] = {"b"}
    /\ report.graph_lines["a"] = {"b"}

\* C19: files that share a stem are one vertex: there are as many vertices as
\* distinct stems among the parsable files, and a vertex has the imports and
\* the layer of the one file of its stem that was enumerated last.
C19_StemCollisionLastWins ==
    arch_pc # "analyze" =>
        /\ Cardinality(DOMAIN modules) = Cardinality({f.stem : f \in ParsableFiles})
        /\ DOMAIN enumerated_last = DOMAIN modules
        /\ \A s \in DOMAIN modules :
             LET f == enumerated_last[s]
             IN  /\ f \in ParsableFiles /\ f.stem = s
                 /\ modules[s].imports = ImportsOf(f.imports)
                 /\ modules[s].layer = GetLayer(PathParts(root, f))
                 /\ modules[s].path = PathParts(root, f)

\* C19 witness: domain/db.py and infrastructure/db.py with different imports are
\* one vertex with the imports of one of them.
C19_Witness ==
    /\ ArchDone
    /\ \E f, g \in ParsableFiles :
         /\ f.stem = "db" /\ g.stem = "db" /\ f.dir = <<"domain">>
         /\ g.dir = <<"infrastructure">>
         /\ ImportsOf(f.imports) = {"user"} /\ ImportsOf(g.imports) = {}
         /\ files = {f, g}
    /\ DOMAIN modules = {"db"}
    /\ modules["db"].imports = {"user"}
    /\ enumerated_last["db"].dir = <<"domain">>

RECURSIVE ClaimedLayer(_)
\* The layer of the first path segment, lower-cased, that is in the table.
ClaimedLayer(parts) ==
    IF parts = <<>> THEN NoLayer
    ELSE IF Lower(Head(parts)) \in DOMAIN LAYER_ORDER THEN LAYER_ORDER[Lower(Head(parts))]
    ELSE ClaimedLayer(Tail(parts))

\* C20: a file's layer is that of the first path segment, compared without
\* case, that is in the name -> layer table; an earlier segment wins over a later
\* one; a path without such a segment has no layer and is in no violation.
C20_LayerOfFirstSegment ==
    arch_pc # "analyze" =>
        /\ \A s \in DOMAIN modules : modules[s].layer = ClaimedLayer(modules[s].path)
        /\ ArchDone =>
             \A v \in report.violation_lines :
                /\ ClaimedLayer(modules[v[1]].path) # NoLayer
                /\ ClaimedLayer(modules[v[2]].path) # NoLayer

\* C20 witness: Core/proj/infrastructure/db.py is in layer 0, the layer of Core.
C20_Witness ==
    /\ ArchDone
    /\ "db" \in DOMAIN modules
    /\ modules["db"].path = <<"Core", "proj", "infrastructure", "db.py">>
    /\ modules["db"].layer = 0

(***************************************************************************)
(* complexity.py: syntax trees.  An ast node is a record whose kind is its *)
(* class name; the other fields are the fields of the class that hold      *)
(* nodes.  Leaves that no analyzer looks at (expression contexts, the      *)
(* arguments' annotations and defaults) are left out.                      *)
(***************************************************************************)
Name == [kind |-> "Name"]
Arg == [kind |-> "arg"]
WithItem == [kind |-> "withitem"]
Pass == [kind |-> "Pass"]
BoolOp(o, vs) == [kind |-> "BoolOp", op |-> [kind |-> o], values |-> vs]
Comprehension(conds) ==
    [kind |-> "comprehension", target |-> Name, iter |-> Name, ifs |-> conds]
ListComp(gens) == [kind |-> "ListComp", elt |-> Name, generators |-> gens]
IfExp == [kind |-> "IfExp", test |-> Name, body |-> Name, orelse |-> Name]
AssertStmt(t) == [kind |-> "Assert", test |-> t]
Expr(v) == [kind |-> "Expr", value |-> v]
\* A literal: its type and its repr()
Constant(typ, repr) == [kind |-> "Constant", typ |-> typ, repr |-> repr]
Return(v) == [kind |-> "Return", value |-> v]
\* If and While (head: the test), For and AsyncFor (head: target, iter), With
\* and AsyncWith (head: the items)
Compound(k, head, body, orelse) ==
    [kind |-> k, head |-> head, body |-> body, orelse |-> orelse]
ExceptHandler(body) == [kind |-> "ExceptHandler", body |-> body]
Try(body, handlers) == [kind |-> "Try", body |-> body, handlers |-> handlers]
\* vararg and kwarg are <<>> (None) or one arg; defaults are expressions
Arguments(posonly, args, vararg, kwonly, kwarg, defaults) ==
    [kind |-> "arguments", posonlyargs |-> posonly, args |-> args,
     vararg |-> vararg, kwonlyargs |-> kwonly, kwarg |-> kwarg,
     defaults |-> defaults]
\* k is FunctionDef or AsyncFunctionDef; end_lineno = NoEndLine is None
FunctionDef(k, name, args, body, lineno, end_lineno) ==
    [kind |-> k, name |-> name, args |-> args, body |-> body,
     lineno |-> lineno, end_lineno |-> end_lineno]
ClassDef(body) == [kind |-> "ClassDef", body |-> body]
Module(body) == [kind |-> "Module", body |-> body]

\* node.end_lineno = None
NoEndLine == 0

FunctionKinds == {"FunctionDef", "AsyncFunctionDef"}

\* ast.iter_child_nodes(node): the child nodes in the order of the class's fields
IterChildNodes(node) ==
    CASE node.kind \in {"Module", "ClassDef"} -> node.body
      [] node.kind \in FunctionKinds -> <<node.args>> \o node.body
      [] node.kind = "arguments" ->
            node.posonlyargs \o node.args \o node.vararg \o node.kwonlyargs
            \o node.kwarg \o node.defaults
      [] node.kind \in {"If", "While", "For", "AsyncFor", "With", "AsyncWith"} ->
            node.head \o node.body \o node.orelse
      [] node.kind = "Try" -> node.body \o node.handlers
      [] node.kind = "ExceptHandler" -> node.body
      [] node.kind = "Assert" -> <<node.test>>
      [] node.kind = "Expr" -> <<node.value>>
      [] node.kind = "Return" -> <<node.value>>
      [] node.kind = "BoolOp" -> <<node.op>> \o node.values
      [] node.kind = "ListComp" -> <<node.elt>> \o node.generators
      [] node.kind = "comprehension" -> <<node.target, node.iter>> \o node.ifs
      [] node.kind = "IfExp" -> <<node.test, node.body, node.orelse>>
      [] OTHER -> <<>>

\* Mutant of CyclomaticIncrement: the filter conditions of a comprehension are
\* not counted.
CyclomaticIncrementNoIfs(child) ==
    CASE child.kind \in {"If", "While", "For", "AsyncFor"} -> 1
      [] child.kind = "ExceptHandler" -> 1
      [] child.kind \in {"And", "Or"} -> 1
      [] child.kind = "comprehension" -> 1
      [] child.kind = "Assert" -> 1
      [] child.kind = "BoolOp" ->
            IF Len(child.values) > 2 THEN Len(child.values) - 2 ELSE 0
      [] OTHER -> 0

\* _calculate_cyclomatic: what one node of ast.walk adds to the complexity
CyclomaticIncrement(child) ==
    CASE child.kind \in {"If", "While", "For", "AsyncFor"} -> 1
      [] child.kind = "ExceptHandler" -> 1
      [] child.kind \in {"And", "Or"} -> 1
      [] child.kind = "comprehension" ->
            1 + (IF child.ifs # <<>> THEN Len(child.ifs) ELSE 0)
      [] child.kind = "Assert" -> 1
      [] child.kind = "BoolOp" ->
            IF Len(child.values) > 2 THEN Len(child.values) - 2 ELSE 0
      [] OTHER -> 0

\* Mutant of NestingTypes: the exception handler is missing.
NestingTypesNoHandler ==
    {"If", "While", "For", "AsyncFor", "With", "AsyncWith", "Try"}

\* _calculate_max_depth: nesting_types
NestingTypes ==
    {"If", "While", "For", "AsyncFor", "With", "AsyncWith", "Try", "ExceptHandler"}

Max(S) == CHOOSE m \in S : \A n \in S : m >= n

RECURSIVE CalculateMaxDepth(_, _)
\* _calculate_max_depth(node, depth)
CalculateMaxDepth(node, depth) ==
    LET kids == IterChildNodes(node)
    IN  Max({depth} \cup
            {CalculateMaxDepth(kids[i],
                 IF kids[i].kind \in NestingTypes THEN depth + 1 ELSE depth)
             : i \in 1..Len(kids)})

RECURSIVE VisitNode(_)
RECURSIVE VisitEach(_)
\* NodeVisitor.generic_visit over a list of children
VisitEach(nodes) ==
    IF nodes = <<>> THEN <<>> ELSE VisitNode(Head(nodes)) \o VisitEach(Tail(nodes))
\* Mutant of VisitNode: _analyze_function without its generic_visit(node).
VisitNodeNoGenericVisit(node) ==
    IF node.kind \in FunctionKinds
    THEN <<node>>
    ELSE VisitEach(IterChildNodes(node))
\* ComplexityVisitor.visit(node): the function definitions in the order in
\* which _analyze_function is called on them (a definition, then those inside it)
VisitNode(node) ==
    IF node.kind \in FunctionKinds
    THEN <<node>> \o VisitEach(IterChildNodes(node))
    ELSE VisitEach(IterChildNodes(node))

\* _analyze_function: the record of one definition, given its cyclomatic complexity
FunctionMetrics(node, cyclomatic) ==
    [name       |-> node.name,
     file       |-> "",
     line       |-> node.lineno,
     cyclomatic |-> cyclomatic,
     lines      |-> (IF node.end_lineno # NoEndLine THEN node.end_lineno ELSE node.lineno)
                    - node.lineno + 1,
     max_depth  |-> CalculateMaxDepth(node, 0),
     params     |-> Len(node.args.args) + Len(node.args.posonlyargs)
                    + Len(node.args.kwonlyargs)]

\* Mutant of Score: the parameter term is not doubled.
ScoreParamsOnce(f) ==
    f.cyclomatic
    + (IF f.lines > 20 THEN (f.lines - 20) \div 10 ELSE 0)
    + (IF f.max_depth > 3 THEN (f.max_depth - 3) * 2 ELSE 0)
    + (IF f.params > 4 THEN f.params - 4 ELSE 0)

\* FunctionMetrics.score
Score(f) ==
    f.cyclomatic
    + (IF f.lines > 20 THEN (f.lines - 20) \div 10 ELSE 0)
    + (IF f.max_depth > 3 THEN (f.max_depth - 3) * 2 ELSE 0)
    + (IF f.params > 4 THEN (f.params - 4) * 2 ELSE 0)

\* _format_issues: the issue strings, as (what, N) pairs
FormatIssues(func) ==
    (IF func.cyclomatic > 5 THEN <<<<"cyclomatic complexity", func.cyclomatic>>>> ELSE <<>>)
    \o (IF func.lines > 20 THEN <<<<"lines", func.lines>>>> ELSE <<>>)
    \o (IF func.max_depth > 3 THEN <<<<"nesting depth", func.max_depth>>>> ELSE <<>>)
    \o (IF func.params > 4 THEN <<<<"parameters", func.params>>>> ELSE <<>>)

\* list.sort(key=score, reverse=True) is stable: f goes behind every element
\* whose score is at least its own.
InsertByScore(sorted, f) ==
    LET k == Cardinality({i \in 1..Len(sorted) : Score(sorted[i]) >= Score(f)})
    IN  SubSeq(sorted, 1, k) \o <<f>> \o SubSeq(sorted, k + 1, Len(sorted))

RECURSIVE SortAscending(_)
\* Mutant of SortByScore: reverse=True is missing.
SortAscending(fs) ==
    IF fs = <<>> THEN <<>>
    ELSE LET rest == SortAscending(SubSeq(fs, 1, Len(fs) - 1))
             f == fs[Len(fs)]
             k == Cardinality({i \in 1..Len(rest) : Score(rest[i]) <= Score(f)})
         IN  SubSeq(rest, 1, k) \o <<f>> \o SubSeq(rest, k + 1, Len(rest))

RECURSIVE SortByScore(_)
\* _group_by_severity: filtered.sort(key=lambda f: f.score, reverse=True)
SortByScore(fs) ==
    IF fs = <<>> THEN <<>>
    ELSE InsertByScore(SortByScore(SubSeq(fs, 1, Len(fs) - 1)), fs[Len(fs)])

\* Mutant of MediumBand: a score of 5 is left out.
MediumBandAbove5(filtered) ==
    SelectSeq(filtered, LAMBDA f : 5 < Score(f) /\ Score(f) < 10)

\* _group_by_severity: the three bands of the filtered, sorted list
HighBand(filtered) == SelectSeq(filtered, LAMBDA f : Score(f) >= 10)
MediumBand(filtered) == SelectSeq(filtered, LAMBDA f : 5 <= Score(f) /\ Score(f) < 10)
LowBand(filtered) == SelectSeq(filtered, LAMBDA f : Score(f) < 5)

\* _group_by_severity: filtered = [f for f in functions if f.score >= threshold]
FilterByThreshold(functions, thr) == SelectSeq(functions, LAMBDA f : Score(f) >= thr)

\* complexity(): threshold if threshold is not None else 1
DefaultThreshold(arg) == IF arg # ThresholdNone THEN arg ELSE 1

\* _format_high_complexity, _format_medium_complexity, _format_low_complexity:
\* what one entry of a section shows
HighEntry(f) ==
    [name |-> f.name, file |-> f.file, line |-> f.line,
     score |-> Score(f), issues |-> FormatIssues(f)]
MediumEntry(f) ==
    [name |-> f.name, file |-> f.file, line |-> f.line, issues |-> FormatIssues(f)]
LowEntry(f) ==
    [name |-> f.name, file |-> f.file, line |-> f.line, score |-> Score(f)]

\* _format_recommendations
FormatRecommendations(hi, all_filtered) ==
    (IF hi # <<>> THEN <<"extract method", "polymorphism">> ELSE <<>>)
    \o (IF \E i \in 1..Len(all_filtered) : all_filtered[i].params > 4
        THEN <<"parameter objects">> ELSE <<>>)
    \o (IF \E i \in 1..Len(all_filtered) : all_filtered[i].max_depth > 3
        THEN <<"early returns">> ELSE <<>>)
    \o (IF \E i \in 1..Len(all_filtered) : all_filtered[i].lines > 30
        THEN <<"extract helpers">> ELSE <<>>)

Section(heading, entries) == [heading |-> heading, entries |-> entries]

\* complexity(): the sections after the header
Sections(hi, med, lo, thr) ==
    (IF hi # <<>>
     THEN <<Section("High Complexity", [i \in 1..Len(hi) |-> HighEntry(hi[i])])>>
     ELSE <<>>)
    \o (IF med # <<>>
        THEN <<Section("Medium Complexity", [i \in 1..Len(med) |-> MediumEntry(med[i])])>>
        ELSE <<>>)
    \o (IF lo # <<>> /\ thr < 5
        THEN <<Section("Low Complexity", [i \in 1..Len(lo) |-> LowEntry(lo[i])])>>
        ELSE <<>>)
    \o (IF FormatRecommendations(hi, hi \o med \o lo) # <<>>
        THEN <<Section("Recommendations", FormatRecommendations(hi, hi \o med \o lo))>>
        ELSE <<>>)

(***************************************************************************)
(* The analysed sources of SpecMetrics and the metric lists of SpecReport  *)
(***************************************************************************)
\* SpecMetrics: operands of a boolean expression, filter conditions of a
\* comprehension clause, handlers of a try, compound statements around a statement
MaxOperands == 3
MaxIfs == 2
MaxHandlers == 2
MaxNest == 2
\* SpecReport: the metrics of a function, the functions of a list, the threshold
MaxCyclomatic == 11
MaxLines == 41
MaxDepthMetric == 5
MaxParams == 6
MaxListed == 3
MaxThreshold == 11

Names(n) == [i \in 1..n |-> Name]
Args(n) == [i \in 1..n |-> Arg]
NoArgs == Arguments(<<>>, <<>>, <<>>, <<>>, <<>>, <<>>)

ExprSet ==
    {Name, IfExp}
    \cup {BoolOp(o, Names(n)) : o \in {"And", "Or"}, n \in 2..MaxOperands}
    \cup {BoolOp("And", <<Name, BoolOp("Or", Names(2))>>)}
    \cup {ListComp(<<Comprehension(Names(k))>>) : k \in 0..MaxIfs}
    \cup {ListComp(<<Comprehension(<<>>), Comprehension(Names(1))>>)}

SimpleStmts == {Pass, AssertStmt(Name)} \cup {Expr(e) : e \in ExprSet}

\* The compound statements with statement s inside.
Wrap(s) ==
    {Compound(k, <<Name>>, <<s>>, <<>>) : k \in {"If", "While"}}
    \cup {Compound("If", <<Name>>, <<Pass>>, <<s>>)}
    \cup {Compound("If", <<BoolOp("And", Names(2))>>, <<s>>, <<>>)}
    \cup {Compound(k, <<Name, Name>>, <<s>>, <<>>) : k \in {"For", "AsyncFor"}}
    \cup {Compound(k, <<WithItem>>, <<s>>, <<>>) : k \in {"With", "AsyncWith"}}
    \cup {Try(<<s>>, [i \in 1..h |-> ExceptHandler(<<Pass>>)]) : h \in 1..MaxHandlers}
    \cup {Try(<<Pass>>, <<ExceptHandler(<<s>>)>>)}
    \cup {FunctionDef(k, "inner", NoArgs, <<s>>, 2, 3) : k \in FunctionKinds}
    \cup {ClassDef(<<s>>)}

RECURSIVE Nested(_)
\* A pass with exactly d compound statements around it.
Nested(d) == IF d = 0 THEN {Pass} ELSE UNION {Wrap(s) : s \in Nested(d - 1)}

\* One statement: a simple one, a simple one inside a compound one, a pass at
\* the bottom of up to MaxNest compound ones; or two statements.
FunctionBodies ==
    {<<s>> : s \in SimpleStmts}
    \cup {<<s>> : s \in UNION {Wrap(s0) : s0 \in SimpleStmts}}
    \cup {<<s>> : s \in UNION {Nested(d) : d \in 2..MaxNest}}
    \cup {<<s1, s2>> : s1 \in Wrap(Pass), s2 \in SimpleStmts}

\* Function headers around a one-statement body: six named parameters and the
\* variadic ones, a default value, an unknown end line, a long function.
HeaderFunctions ==
    {FunctionDef(k, "g", Arguments(Args(1), Args(n), va, Args(1), va, dflt), <<Pass>>, 1, e)
     : k \in FunctionKinds, n \in {0, 4}, va \in {<<>>, <<Arg>>},
       dflt \in {<<>>, <<BoolOp("Or", Names(2))>>}, e \in {NoEndLine, 1, 45}}

Sources ==
    {[read |-> "ok", parsable |-> TRUE,
      tree |-> Module(<<FunctionDef("FunctionDef", "f", NoArgs, b, 1, 9)>>)]
     : b \in FunctionBodies}
    \cup {[read |-> "ok", parsable |-> TRUE, tree |-> Module(<<f>>)] : f \in HeaderFunctions}
    \cup {[read |-> r, parsable |-> FALSE, tree |-> Module(<<>>)]
          : r \in {"ok", "UnicodeDecodeError", "OSError"}}

\* One function of every metric combination.
MetricFunctions ==
    {[name |-> "f", file |-> "m.py", line |-> 1,
      cyclomatic |-> c, lines |-> l, max_depth |-> d, params |-> p]
     : c \in 1..MaxCyclomatic, l \in 1..MaxLines, d \in 0..MaxDepthMetric,
       p \in 0..MaxParams}

\* Scores on both sides of the band limits.
BandScores == {1, 4, 5, 9, 10, 12}

\* Lists of functions that differ in their line and their cyclomatic complexity.
FunctionLists ==
    UNION {{[i \in 1..n |->
                [name |-> "f", file |-> "m.py", line |-> i,
                 cyclomatic |-> c[i], lines |-> 10, max_depth |-> 0, params |-> 0]]
            : c \in [1..n -> BandScores]}
           : n \in 0..MaxListed}

(***************************************************************************)
(* complexity(path, threshold), step by step                               *)
(***************************************************************************)
CxLocalsInit ==
    /\ visit_list = <<>> /\ cur = 0 /\ walk_queue = <<>> /\ complexity = 0
    /\ high = <<>> /\ medium = <<>> /\ low = <<>> /\ cx_report = <<>>

\* SpecMetrics starts at the call.
InitMetrics ==
    /\ source \in Sources
    /\ threshold_arg \in {ThresholdNone, 5}
    /\ cx_pc = "parse"
    /\ all_functions = <<>> /\ threshold = 0
    /\ CxLocalsInit
    /\ NonCxIdle

\* SpecReport starts where _collect_metrics has returned all_functions.
InitReport ==
    /\ source = <<>>
    /\ \/ all_functions \in {<<f>> : f \in MetricFunctions} /\ threshold_arg = ThresholdNone
       \/ all_functions \in FunctionLists
          /\ threshold_arg \in {ThresholdNone} \cup 0..MaxThreshold
    /\ threshold = DefaultThreshold(threshold_arg)
    /\ cx_pc = "group"
    /\ CxLocalsInit
    /\ NonCxIdle

\* parse_file: what path.read_text() may do and still leave parse_file
\* returning: succeed, or raise an exception of the except clause
\* (SyntaxError comes from ast.parse and is the field parsable).
ParseFileCaught == {"ok", "UnicodeDecodeError"}

\* parse_file: path.read_text() raises an exception that the except clause
\* does not name (an OSError: unreadable file, dangling link, directory);
\* it leaves parse_file, _analyze_file, _collect_metrics and complexity().
ReadFails ==
    /\ cx_pc = "parse"
    /\ source.read \notin ParseFileCaught
    /\ cx_pc' = "raised"
    /\ UNCHANGED <<nonCxVars, source, threshold_arg, threshold, visit_list, cur,
                   walk_queue, complexity, all_functions, high, medium, low, cx_report>>

\* "threshold = threshold if threshold is not None else 1", then
\* _analyze_file: parse_file and visitor.visit(tree); a file that does not
\* parse yields no functions.
ParseFile ==
    /\ cx_pc = "parse"
    /\ source.read \in ParseFileCaught
    /\ threshold' = DefaultThreshold(threshold_arg)
    /\ visit_list' = IF source.read = "ok" /\ source.parsable
                     THEN VisitNode(source.tree) ELSE <<>>
    /\ cur' = 1
    /\ cx_pc' = "visit"
    /\ UNCHANGED <<nonCxVars, source, threshold_arg, walk_queue, complexity,
                   all_functions, high, medium, low, cx_report>>

\* _analyze_function(node) calls _calculate_cyclomatic(node): complexity = 1 and
\* ast.walk starts with the node in its deque.
StartFunction ==
    /\ cx_pc = "visit" /\ cur <= Len(visit_list)
    /\ complexity' = 1
    /\ walk_queue' = <<visit_list[cur]>>
    /\ cx_pc' = "walk"
    /\ UNCHANGED <<nonCxVars, source, threshold_arg, visit_list, cur, all_functions,
                   threshold, high, medium, low, cx_report>>

\* "for child in ast.walk(node)": one node leaves the deque, its children join it.
WalkStep ==
    /\ cx_pc = "walk" /\ walk_queue # <<>>
    /\ walk_queue' = Tail(walk_queue) \o IterChildNodes(Head(walk_queue))
    /\ complexity' = complexity + CyclomaticIncrement(Head(walk_queue))
    /\ UNCHANGED <<nonCxVars, source, threshold_arg, cx_pc, visit_list, cur,
                   all_functions, threshold, high, medium, low, cx_report>>

\* _analyze_function: the rest of the metrics; the record joins the list with
\* the file name _analyze_file gives it.
FinishFunction ==
    /\ cx_pc = "walk" /\ walk_queue = <<>>
    /\ all_functions' =
         Append(all_functions,
                [FunctionMetrics(visit_list[cur], complexity) EXCEPT !.file = "m.py"])
    /\ cur' = cur + 1
    /\ cx_pc' = "visit"
    /\ UNCHANGED <<nonCxVars, source, threshold_arg, visit_list, walk_queue, complexity,
                   threshold, high, medium, low, cx_report>>

\* _collect_metrics returns.
CollectDone ==
    /\ cx_pc = "visit" /\ cur > Len(visit_list)
    /\ cx_pc' = "group"
    /\ UNCHANGED <<nonCxVars, source, threshold_arg, visit_list, cur, walk_queue,
                   complexity, all_functions, threshold, high, medium, low, cx_report>>

\* _group_by_severity(all_functions, threshold)
GroupBySeverity ==
    /\ cx_pc = "group"
    /\ LET filtered == SortByScore(FilterByThreshold(all_functions, threshold))
       IN  /\ high' = HighBand(filtered)
           /\ medium' = MediumBand(filtered)
           /\ low' = LowBand(filtered)
    /\ cx_pc' = "format"
    /\ UNCHANGED <<nonCxVars, source, threshold_arg, visit_list, cur, walk_queue,
                   complexity, all_functions, threshold, cx_report>>

\* complexity(): the message when nothing is left, else the sections.
EmitSections ==
    /\ cx_pc = "format"
    /\ cx_report' =
         IF high \o medium \o low = <<>>
         THEN [found    |-> Len(all_functions),
               message  |-> IF threshold > 1 THEN "below threshold" ELSE "no issues",
               sections |-> <<>>]
         ELSE [found    |-> Len(all_functions),
               message  |-> "",
               sections |-> Sections(high, medium, low, threshold)]
    /\ cx_pc' = "done"
    /\ UNCHANGED <<nonCxVars, source, threshold_arg, visit_list, cur, walk_queue,
                   complexity, all_functions, threshold, high, medium, low>>

NextMetrics ==
    \/ ParseFile \/ ReadFails \/ StartFunction \/ WalkStep \/ FinishFunction \/ CollectDone
    \/ GroupBySeverity \/ EmitSections

NextReport == GroupBySeverity \/ EmitSections

SpecMetrics == InitMetrics /\ [][NextMetrics]_vars
SpecReport == InitReport /\ [][NextReport]_vars

(***************************************************************************)
(* Claims about the complexity analyzer                                    *)
(***************************************************************************)
CxDone == cx_pc = "done"

Max0(x) == IF x > 0 THEN x ELSE 0
\* floor(x / d) for x >= 0, d > 0
FloorDiv(x, d) == CHOOSE q \in 0..x : q * d <= x /\ x < (q + 1) * d

ClaimedScore(f) ==
    f.cyclomatic + FloorDiv(Max0(f.lines - 20), 10)
    + 2 * Max0(f.max_depth - 3) + 2 * Max0(f.params - 4)

BandHeadings == {"High Complexity", "Medium Complexity", "Low Complexity"}
\* The places (section, entry) of the band sections of the report, top to bottom.
Listed ==
    {<<k, i>> \in (1..4) \X (1..Len(all_functions)) :
        /\ k <= Len(cx_report.sections)
        /\ cx_report.sections[k].heading \in BandHeadings
        /\ i <= Len(cx_report.sections[k].entries)}
EntryAt(pl) == cx_report.sections[pl[1]].entries[pl[2]]
HeadingAt(pl) == cx_report.sections[pl[1]].heading
\* The function an entry shows: its name, file and line.
FunctionOf(entry) ==
    CHOOSE i \in 1..Len(all_functions) :
        /\ all_functions[i].name = entry.name
        /\ all_functions[i].file = entry.file
        /\ all_functions[i].line = entry.line
PlacesOf(i) == {pl \in Listed : FunctionOf(EntryAt(pl)) = i}

\* C5: a function's severity score is cyclomatic + floor(max(0, lines-20)/10)
\* + 2*max(0, depth-3) + 2*max(0, params-4), in the bands and in the scores
\* the report shows; score >= cyclomatic >= 1; a function with six named
\* parameters, no branches and at most 20 lines scores 5.
C5_ScoreIsWeightedSum ==
    /\ \A i \in 1..Len(all_functions) :
          LET f == all_functions[i]
          IN  /\ Score(f) = ClaimedScore(f)
              /\ Score(f) >= f.cyclomatic /\ f.cyclomatic >= 1
              /\ (f.params = 6 /\ f.cyclomatic = 1 /\ f.max_depth = 0 /\ f.lines <= 20)
                    => Score(f) = 5
    /\ CxDone =>
          \A pl \in Listed :
             LET c == ClaimedScore(all_functions[FunctionOf(EntryAt(pl))])
             IN  CASE HeadingAt(pl) = "High Complexity" -> c >= 10 /\ EntryAt(pl).score = c
                   [] HeadingAt(pl) = "Medium Complexity" -> 5 <= c /\ c <= 9
                   [] HeadingAt(pl) = "Low Complexity" -> c < 5 /\ EntryAt(pl).score = c

\* The six-parameter function is listed under Medium with its parameter issue.
C5_Witness ==
    /\ CxDone
    /\ Len(all_functions) = 1
    /\ all_functions[1].params = 6 /\ all_functions[1].cyclomatic = 1
    /\ all_functions[1].lines = 20 /\ all_functions[1].max_depth = 0
    /\ \E pl \in Listed :
          /\ HeadingAt(pl) = "Medium Complexity"
          /\ EntryAt(pl).issues = <<<<"parameters", 6>>>>

RECURSIVE ClaimedCount(_)
RECURSIVE ClaimedCountAll(_)
ClaimedCountAll(nodes) ==
    IF nodes = <<>> THEN 0 ELSE ClaimedCount(Head(nodes)) + ClaimedCountAll(Tail(nodes))
\* What the constructs of a subtree count for, each construct on its own.
ClaimedCount(node) ==
    (CASE node.kind \in {"If", "While", "For", "AsyncFor"} -> 1
       [] node.kind = "ExceptHandler" -> 1
       [] node.kind = "Assert" -> 1
       [] node.kind = "comprehension" -> 1 + Len(node.ifs)
       [] node.kind = "BoolOp" -> 1 + Max0(Len(node.values) - 2)
       [] OTHER -> 0)
    + ClaimedCountAll(IterChildNodes(node))

RECURSIVE PathsFrom(_)
\* The root-to-node paths of a subtree below its root, as the kinds on the way.
PathsFrom(node) ==
    LET kids == IterChildNodes(node)
    IN  {<<>>} \cup UNION {{<<kids[i].kind>> \o p : p \in PathsFrom(kids[i])}
                           : i \in 1..Len(kids)}
ClaimedNesting ==
    {"If", "While", "For", "AsyncFor", "With", "AsyncWith", "Try", "ExceptHandler"}
NestingOn(p) == Cardinality({i \in 1..Len(p) : p[i] \in ClaimedNesting})

\* C7: the max nesting depth of a function is the largest number of nesting nodes
\* (if, while, for, async-for, with, async-with, try, exception handler) on a
\* root-to-node path of its subtree; no nesting node, depth 0.
C7_MaxDepthIsDeepestPath ==
    \A i \in 1..Len(all_functions) :
       /\ i <= Len(visit_list)
       /\ all_functions[i].max_depth = Max({NestingOn(p) : p \in PathsFrom(visit_list[i])})

\* try: pass / except: with x: pass -- try, handler and with on one path
C7_Witness ==
    /\ CxDone
    /\ Len(visit_list) = 1
    /\ visit_list[1].body =
         <<Try(<<Pass>>,
               <<ExceptHandler(<<Compound("With", <<WithItem>>, <<Pass>>, <<>>)>>)>>)>>
    /\ all_functions[1].max_depth = 3

\* C8: every function with score >= threshold is listed in exactly one band
\* section (High iff score >= 10, Medium iff 5 <= score <= 9, Low iff score < 5),
\* no function with score < threshold is listed, and the Low section is there
\* only when threshold < 5.
C8_ListedInItsBand ==
    CxDone =>
       /\ \A i \in 1..Len(all_functions) :
             LET sc == Score(all_functions[i])
                 In(h) == \E pl \in PlacesOf(i) : HeadingAt(pl) = h
             IN  IF sc >= threshold
                 THEN /\ Cardinality(PlacesOf(i)) = 1
                      /\ In("High Complexity") <=> sc >= 10
                      /\ In("Medium Complexity") <=> (5 <= sc /\ sc <= 9)
                      /\ In("Low Complexity") <=> sc < 5
                 ELSE PlacesOf(i) = {}
       /\ (\E pl \in Listed : HeadingAt(pl) = "Low Complexity") => threshold < 5

\* Threshold 5: the score 4 is left out, 5 is Medium, 10 is High, no Low section.
C8_Witness ==
    /\ CxDone
    /\ threshold = 5
    /\ {Score(all_functions[i]) : i \in 1..Len(all_functions)} = {4, 5, 10}
    /\ {HeadingAt(pl) : pl \in Listed} = {"High Complexity", "Medium Complexity"}
    /\ Cardinality(Listed) = 2

\* C9: the listed functions are in non-increasing score order, top to bottom
\* across the High, Medium and Low sections.
C9_DescendingScores ==
    CxDone =>
       \A p1, p2 \in Listed :
          (p1[1] < p2[1] \/ (p1[1] = p2[1] /\ p1[2] < p2[2]))
             => Score(all_functions[FunctionOf(EntryAt(p1))])
                   >= Score(all_functions[FunctionOf(EntryAt(p2))])

\* Found in the order 10, 12, 9 and listed as 12, 10 under High, 9 under Medium.
C9_Witness ==
    /\ CxDone
    /\ Len(all_functions) = 3
    /\ Score(all_functions[1]) = 10 /\ Score(all_functions[2]) = 12
    /\ Score(all_functions[3]) = 9
    /\ FunctionOf(EntryAt(<<1, 1>>)) = 2
    /\ FunctionOf(EntryAt(<<1, 2>>)) = 1
    /\ FunctionOf(EntryAt(<<2, 1>>)) = 3

(***************************************************************************)
(* refactor.py: the duplication analysis                                   *)
(***************************************************************************)
RECURSIVE WalkQueue(_)
\* ast.walk: breadth first, from a deque
WalkQueue(queue) ==
    IF queue = <<>> THEN <<>>
    ELSE <<Head(queue)>> \o WalkQueue(Tail(queue) \o IterChildNodes(Head(queue)))
Walk(node) == WalkQueue(<<node>>)

RECURSIVE JoinDumps(_)
RECURSIVE AstDump(_)
JoinDumps(nodes) ==
    IF nodes = <<>> THEN ""
    ELSE IF Len(nodes) = 1 THEN AstDump(nodes[1])
    ELSE AstDump(nodes[1]) \o ", " \o JoinDumps(Tail(nodes))
\* ast.dump(node) for the nodes of the analysed bodies
AstDump(node) ==
    CASE node.kind = "Module" ->
            "Module(body=[" \o JoinDumps(node.body) \o "], type_ignores=[])"
      [] node.kind = "Return" -> "Return(value=" \o AstDump(node.value) \o ")"
      [] node.kind = "Expr" -> "Expr(value=" \o AstDump(node.value) \o ")"
      [] node.kind = "Constant" -> "Constant(value=" \o node.repr \o ")"
      [] node.kind = "Pass" -> "Pass()"

\* hashlib.md5(normalized.encode()).hexdigest()[:8] of the dumps that occur
Md5Hex8(normalized) ==
    CASE normalized = "Module(body=[Return(value=Constant(value=30822))], type_ignores=[])"
            -> "57587095"
      [] normalized = "Module(body=[Return(value=Constant(value=40057))], type_ignores=[])"
            -> "57587095"
      [] normalized = "Module(body=[Return(value=Constant(value=1))], type_ignores=[])"
            -> "c1118967"
      [] normalized = "Module(body=[Pass()], type_ignores=[])"
            -> "691730bd"
      [] normalized = "Module(body=[Expr(value=Constant(value='doc')), Return(value=Constant(value=1))], type_ignores=[])"
            -> "dd2163bb"
      [] normalized = "Module(body=[Expr(value=Constant(value=42)), Return(value=Constant(value=1))], type_ignores=[])"
            -> "6d11e9a3"
      [] normalized = "Module(body=[Expr(value=Constant(value='doc'))], type_ignores=[])"
            -> "5983cf0a"
      [] normalized = "Module(body=[Expr(value=Constant(value=Ellipsis))], type_ignores=[])"
            -> "aca4fa9a"

\* _hash_function_body
HashFunctionBody(node) ==
    LET body == IF /\ node.body # <<>>
                   /\ node.body[1].kind = "Expr"
                   /\ node.body[1].value.kind = "Constant"
                THEN Tail(node.body) ELSE node.body
    IN  IF body = <<>> THEN "" ELSE Md5Hex8(AstDump(Module(body)))

\* _extract_functions(file_path): the dicts of the ast.FunctionDef nodes
ExtractFunctions(file) ==
    IF ~file.parsable THEN <<>>
    ELSE LET found == SelectSeq(Walk(file.tree), LAMBDA n : n.kind = "FunctionDef")
         IN  [i \in 1..Len(found) |->
                [name      |-> found[i].name,
                 file      |-> file.path,
                 line      |-> found[i].lineno,
                 body_hash |-> HashFunctionBody(found[i]),
                 num_lines |-> (IF found[i].end_lineno # NoEndLine
                                THEN found[i].end_lineno ELSE found[i].lineno)
                               - found[i].lineno + 1]]

RECURSIVE FirstSeen(_)
\* The keys of a dict in insertion order: each value of a list at its first
\* occurrence.
FirstSeen(keys) ==
    IF keys = <<>> THEN <<>>
    ELSE LET before == FirstSeen(SubSeq(keys, 1, Len(keys) - 1))
             k == keys[Len(keys)]
         IN  IF k \in SeqToSet(before) THEN before ELSE Append(before, k)

FilesOf(funcs) == {funcs[i].file : i \in 1..Len(funcs)}

\* _find_duplicates: the groups as (hash, funcs) in the order of the dict
FindDuplicates(functions) ==
    LET hashed == SelectSeq(functions, LAMBDA f : f.body_hash # "")
        keys == FirstSeen([i \in 1..Len(hashed) |-> hashed[i].body_hash])
        by_hash == [i \in 1..Len(keys) |->
                      [key |-> keys[i],
                       funcs |-> SelectSeq(hashed, LAMBDA f : f.body_hash = keys[i])]]
    IN  SelectSeq(by_hash, LAMBDA g : Cardinality(FilesOf(g.funcs)) > 1)

\* _find_same_name_functions: the groups as (name, funcs) in the order of the dict
FindSameNameFunctions(functions) ==
    LET keys == FirstSeen([i \in 1..Len(functions) |-> functions[i].name])
        by_name == [i \in 1..Len(keys) |->
                      [key |-> keys[i],
                       funcs |-> SelectSeq(functions, LAMBDA f : f.name = keys[i])]]
    IN  SelectSeq(by_name, LAMBDA g : Cardinality(FilesOf(g.funcs)) > 1)

\* Path(file).name
PathName(file) == file[Len(file)]

\* _analyze_duplication: the duplicate-body issues, then the same-name issues
AnalyzeDuplication(functions) ==
    LET duplicates == FindDuplicates(functions)
        dup_funcs == UNION {{duplicates[i].funcs[j].name
                             : j \in 1..Len(duplicates[i].funcs)}
                            : i \in 1..Len(duplicates)}
        same_name == SelectSeq(FindSameNameFunctions(functions),
                               LAMBDA g : g.key \notin dup_funcs)
    IN  [i \in 1..Len(duplicates) |->
           LET funcs == duplicates[i].funcs
           IN  [category |-> "duplication", priority |-> 2,
                title |-> "Duplicate function bodies", key |-> duplicates[i].key,
                count |-> Len(funcs),
                file |-> funcs[1].file, line |-> funcs[1].line,
                details |-> [j \in 1..Len(funcs) |->
                               [name |-> funcs[j].name,
                                file |-> PathName(funcs[j].file),
                                line |-> funcs[j].line]]]]
        \o
        [i \in 1..Len(same_name) |->
           LET funcs == same_name[i].funcs
           IN  [category |-> "duplication", priority |-> 3,
                title |-> "Same-name function", key |-> same_name[i].key,
                count |-> Len(funcs),
                file |-> funcs[1].file, line |-> funcs[1].line,
                details |-> [j \in 1..Len(funcs) |->
                               [file |-> PathName(funcs[j].file),
                                line |-> funcs[j].line,
                                num_lines |-> funcs[j].num_lines]]]]

\* _generate_action_items: the number of duplicate groups to consolidate
DuplicateCount(issues) ==
    Cardinality({i \in 1..Len(issues) : issues[i].title = "Duplicate function bodies"})

RECURSIVE SortByPriority(_)
\* all_issues.sort(key=lambda i: (i.priority, i.category)): stable; every issue
\* of the duplication analysis has the category "duplication".
SortByPriority(issues) ==
    IF issues = <<>> THEN <<>>
    ELSE LET rest == SortByPriority(SubSeq(issues, 1, Len(issues) - 1))
             x == issues[Len(issues)]
             k == Cardinality({i \in 1..Len(rest) : rest[i].priority <= x.priority})
         IN  SubSeq(rest, 1, k) \o <<x>> \o SubSeq(rest, k + 1, Len(rest))

(***************************************************************************)
(* The analysed trees of SpecDup                                           *)
(***************************************************************************)
\* Function definitions in the tree.
MaxFuncs == 3

FileNames == {<<"a.py">>, <<"b.py">>}

DocString == Expr(Constant("str", "'doc'"))
ReturnInt(repr) == Return(Constant("int", repr))
\* return 30822 and return 40057 are two bodies with one md5 prefix.
DupFunctions ==
    {[kind |-> "FunctionDef", name |-> "f", body |-> b]
     : b \in {<<ReturnInt("1")>>, <<ReturnInt("30822")>>, <<ReturnInt("40057")>>,
              <<DocString, ReturnInt("1")>>,
              <<Expr(Constant("int", "42")), ReturnInt("1")>>,
              <<DocString>>,
              <<Expr(Constant("ellipsis", "Ellipsis"))>>}}
    \cup {[kind |-> "FunctionDef", name |-> "g", body |-> b]
          : b \in {<<ReturnInt("1")>>, <<ReturnInt("40057")>>}}
    \cup {[kind |-> "AsyncFunctionDef", name |-> "f", body |-> <<ReturnInt("1")>>]}

\* The file at path: the definitions fn[i] with at[i] = path, one after the other.
BuildFile(file_path, n, fn, at, broken) ==
    LET here == SelectSeq([i \in 1..n |-> i], LAMBDA i : at[i] = file_path)
    IN  [path     |-> file_path,
         parsable |-> file_path \notin broken,
         tree     |-> Module([k \in 1..Len(here) |->
                        FunctionDef(fn[here[k]].kind, fn[here[k]].name, NoArgs,
                                    fn[here[k]].body,
                                    3 * k - 2, 3 * k - 2 + Len(fn[here[k]].body))])]

\* refactor(path, "duplication") after _collect_py_files: rglob gives the files
\* in any order.
InitDup ==
    /\ \E n \in 0..MaxFuncs :
         \E fn \in [1..n -> DupFunctions], at \in [1..n -> FileNames],
            broken \in {{}} \cup {{f} : f \in FileNames},
            first \in FileNames :
               py_files = [k \in 1..2 |->
                             BuildFile(IF k = 1 THEN first
                                       ELSE CHOOSE f \in FileNames : f # first,
                                       n, fn, at, broken)]
    /\ rf_pc = "extract" /\ rf_next = 1
    /\ rf_functions = <<>> /\ all_issues = <<>> /\ rf_report = <<>>
    /\ NonRfIdle

\* "for py_file in py_files: all_functions.extend(_extract_functions(py_file))"
ExtractFile ==
    /\ rf_pc = "extract" /\ rf_next <= Len(py_files)
    /\ rf_functions' = rf_functions \o ExtractFunctions(py_files[rf_next])
    /\ rf_next' = rf_next + 1
    /\ UNCHANGED <<nonRfVars, py_files, rf_pc, all_issues, rf_report>>

\* "all_issues.extend(_analyze_duplication(py_files, all_functions))"
RunAnalyzeDuplication ==
    /\ rf_pc = "extract" /\ rf_next > Len(py_files)
    /\ all_issues' = all_issues \o AnalyzeDuplication(rf_functions)
    /\ rf_pc' = "format"
    /\ UNCHANGED <<nonRfVars, py_files, rf_next, rf_functions, rf_report>>

\* The rest of refactor(): the clean message, or the sorted issues and the
\* action items.
FormatPlan ==
    /\ rf_pc = "format"
    /\ rf_report' = [files       |-> Len(py_files),
                     functions   |-> Len(rf_functions),
                     clean       |-> all_issues = <<>>,
                     issues      |-> SortByPriority(all_issues),
                     consolidate |-> DuplicateCount(all_issues)]
    /\ rf_pc' = "done"
    /\ UNCHANGED <<nonRfVars, py_files, rf_next, rf_functions, all_issues>>

NextDup == ExtractFile \/ RunAnalyzeDuplication \/ FormatPlan

SpecDup == InitDup /\ [][NextDup]_vars

(***************************************************************************)
(* Claims about the duplication analysis                                   *)
(***************************************************************************)
RfDone == rf_pc = "done"

\* The function definitions, sync and async, of the files that parse.
DefinitionsIn(file) ==
    IF ~file.parsable THEN {}
    ELSE {[file |-> PathName(file.path), line |-> n.lineno, body |-> n.body,
           name |-> n.name]
          : n \in {m \in SeqToSet(Walk(file.tree)) : m.kind \in FunctionKinds}}
Definitions == UNION {DefinitionsIn(py_files[i]) : i \in 1..Len(py_files)}

\* The body without a leading docstring.
StructuralBody(body) ==
    IF /\ body # <<>>
       /\ body[1].kind = "Expr" /\ body[1].value.kind = "Constant"
       /\ body[1].value.typ = "str"
    THEN Tail(body) ELSE body

Place(d) == [file |-> d.file, line |-> d.line]
\* The sets of definitions with one non-empty structural body, in two files or more.
ExpectedGroups ==
    {g \in {{d2 \in Definitions : StructuralBody(d2.body) = StructuralBody(d.body)}
            : d \in {d1 \in Definitions : StructuralBody(d1.body) # <<>>}}
       : Cardinality({d.file : d \in g}) >= 2}
ReportedGroups ==
    {{[file |-> rf_report.issues[i].details[j].file,
       line |-> rf_report.issues[i].details[j].line]
      : j \in 1..Len(rf_report.issues[i].details)}
     : i \in {k \in 1..Len(rf_report.issues)
                : rf_report.issues[k].title = "Duplicate function bodies"}}

\* C10: a 'Duplicate function bodies' group is reported for a set of function
\* definitions iff they have the same non-empty structural body (a leading
\* docstring ignored) and are in at least two files; copies within one file
\* alone are never reported.
C10_DuplicateGroupIffSameBody ==
    RfDone => ReportedGroups = {{Place(d) : d \in g} : g \in ExpectedGroups}

IssuesTitled(title) ==
    {rf_report.issues[i] : i \in {k \in 1..Len(rf_report.issues)
                                    : rf_report.issues[k].title = title}}
\* The function records with the name n.
Named(n) == {rf_functions[i] : i \in {k \in 1..Len(rf_functions) : rf_functions[k].name = n}}
\* The names counted in a reported duplicate-body group.
DuplicateNames ==
    UNION {{g.details[j].name : j \in 1..Len(g.details)}
           : g \in IssuesTitled("Duplicate function bodies")}

\* C11: a 'Same-name function' group is reported for a name n iff functions
\* named n are in at least two files, their bodies differ (their hashes differ)
\* and n is not counted in a reported duplicate-body group.
C11_SameNameGroupIffDiffering ==
    RfDone =>
       \A n \in {rf_functions[i].name : i \in 1..Len(rf_functions)} :
          (\E g \in IssuesTitled("Same-name function") : g.key = n)
          <=> /\ Cardinality({r.file : r \in Named(n)}) >= 2
              /\ \E r1, r2 \in Named(n) : r1.body_hash # r2.body_hash
              /\ n \notin DuplicateNames

\* The record _extract_functions made of a definition.
RecordOf(d) ==
    CHOOSE r \in SeqToSet(rf_functions) : PathName(r.file) = d.file /\ r.line = d.line
Extracted == {d \in Definitions : \E r \in SeqToSet(rf_functions) :
                                      PathName(r.file) = d.file /\ r.line = d.line}

\* C12: only a leading bare string literal is dropped before hashing; a function
\* whose body is empty after that drop has no hash and is in no duplicate group.
C12_OnlyDocstringDropped ==
    RfDone =>
       /\ \A d \in Extracted :
             RecordOf(d).body_hash =
                IF StructuralBody(d.body) = <<>> THEN ""
                ELSE Md5Hex8(AstDump(Module(StructuralBody(d.body))))
       /\ \A d \in Definitions :
             StructuralBody(d.body) = <<>>
                => \A g \in ReportedGroups : Place(d) \notin g

\* C13: no analyzer raises for a per-file failure: whatever goes wrong while a
\* file is read or parsed, the call returns a report.
C13_NoAnalyzerRaises == cx_pc # "raised"

(***************************************************************************)
(* The entry of the four analyzers: the existence check, the collection of *)
(* the files, the "no files" return.                                       *)
(***************************************************************************)
MaxEntries == 3

\* The names of the model's paths, in the order of Python's string comparison.
NameOrder ==
    <<".dot", ".g.py", ".hid", "__pycache__", "a.py", "b.py", "c.py", "d.py",
      "e.py", "gone", "h.txt", "my__pycache__x", "pkg.py", "proj", "sub">>

\* path.suffix == ".py" and the pattern "*.py" of rglob.
PyNames == {".g.py", "a.py", "b.py", "c.py", "d.py", "e.py", "pkg.py"}
\* p.startswith(".")
DotNames == {".dot", ".g.py", ".hid"}
\* "__pycache__" in the text of the name
CacheNames == {"__pycache__", "my__pycache__x"}

Last(parts) == parts[Len(parts)]

RECURSIVE PathText(_)
\* str(path)
PathText(parts) ==
    IF Len(parts) = 1 THEN parts[1]
    ELSE PathText(SubSeq(parts, 1, Len(parts) - 1)) \o "/" \o Last(parts)

Rank(name) == CHOOSE i \in 1..Len(NameOrder) : NameOrder[i] = name

RECURSIVE PathLess(_, _)
\* Path.__lt__: the parts compared as tuples of strings.
PathLess(p, q) ==
    IF q = <<>> THEN FALSE
    ELSE IF p = <<>> THEN TRUE
    ELSE IF Head(p) # Head(q) THEN Rank(Head(p)) < Rank(Head(q))
    ELSE PathLess(Tail(p), Tail(q))

\* sorted(paths)
SortPaths(S) ==
    CHOOSE o \in Orderings(S) : \A i, j \in 1..Len(o) : i < j => PathLess(o[i], o[j])

\* path.rglob("*.py"): every entry below the directory whose name matches.
Rglob(t, entries) == {t.parts \o e.parts : e \in {x \in entries : Last(x.parts) \in PyNames}}

\* '"__pycache__" not in str(f) and not any(p.startswith(".") for p in f.parts)'
KeepPath(f) ==
    /\ ~(\E i \in 1..Len(f) : f[i] \in CacheNames)
    /\ ~(\E i \in 1..Len(f) : f[i] \in DotNames)

\* The paths a collector returns, before any sorting.
CollectSet(t, entries) ==
    IF t.kind = "file"
    THEN IF Last(t.parts) \in PyNames THEN {t.parts} ELSE {}
    ELSE {f \in Rglob(t, entries) : KeepPath(f)}

\* _parsers.collect_py_files
CollectPyFiles(t, entries) ==
    IF t.kind = "file"
    THEN IF Last(t.parts) \in PyNames THEN <<t.parts>> ELSE <<>>
    ELSE SortPaths(CollectSet(t, entries))

\* What is at a collected path: the target itself or an entry below it.
KindOf(t, entries, f) ==
    IF f = t.parts THEN t.kind
    ELSE (CHOOSE e \in entries : t.parts \o e.parts = f).kind

Analyzers == {"complexity", "architecture", "analyze", "refactor"}

Targets ==
    {[parts |-> <<"proj">>, kind |-> "dir"],
     [parts |-> <<".dot", "proj">>, kind |-> "dir"],
     [parts |-> <<"gone">>, kind |-> "missing"],
     [parts |-> <<"proj", "a.py">>, kind |-> "file"],
     [parts |-> <<"proj", "h.txt">>, kind |-> "file"],
     [parts |-> <<"proj", ".g.py">>, kind |-> "file"],
     [parts |-> <<"proj", "__pycache__", "e.py">>, kind |-> "file"]}

Entries ==
    {[parts |-> <<"a.py">>, kind |-> "file"],
     [parts |-> <<"b.py">>, kind |-> "file"],
     [parts |-> <<"h.txt">>, kind |-> "file"],
     [parts |-> <<"pkg.py">>, kind |-> "dir"],
     [parts |-> <<"sub", "a.py">>, kind |-> "file"],
     [parts |-> <<"__pycache__", "e.py">>, kind |-> "file"],
     [parts |-> <<"my__pycache__x", "d.py">>, kind |-> "file"],
     [parts |-> <<".hid", "c.py">>, kind |-> "file"],
     [parts |-> <<".g.py">>, kind |-> "file"]}

InitEntry ==
    /\ analyzer \in Analyzers
    /\ target \in Targets
    /\ fs_tree \in IF target.kind = "dir" THEN SubsetsUpTo(Entries, MaxEntries) ELSE {{}}
    /\ entry_pc = "call"
    /\ entry_files = <<>> /\ entry_result = ""
    /\ NonEntryIdle

\* "if not target.exists(): return f'Error: Path not found: {path}'"
PathNotFound ==
    /\ entry_pc = "call"
    /\ target.kind = "missing"
    /\ entry_result' = "Error: Path not found: " \o PathText(target.parts)
    /\ entry_pc' = "returned"
    /\ UNCHANGED <<nonEntryVars, analyzer, target, fs_tree, entry_files>>

\* complexity() and analyze(): py_files = collect_py_files(target)
CollectSorted ==
    /\ entry_pc = "call"
    /\ target.kind # "missing"
    /\ analyzer \in {"complexity", "analyze"}
    /\ entry_files' = CollectPyFiles(target, fs_tree)
    /\ entry_pc' = "collected"
    /\ UNCHANGED <<nonEntryVars, analyzer, target, fs_tree, entry_result>>

\* architecture() and refactor(): the same filter over list(rglob), in the
\* order of the enumeration.
CollectUnsorted ==
    /\ entry_pc = "call"
    /\ target.kind # "missing"
    /\ analyzer \in {"architecture", "refactor"}
    /\ entry_files' \in Orderings(CollectSet(target, fs_tree))
    /\ entry_pc' = "collected"
    /\ UNCHANGED <<nonEntryVars, analyzer, target, fs_tree, entry_result>>

\* "if not py_files: return f'No Python files found in {path}'"
NoPythonFiles ==
    /\ entry_pc = "collected"
    /\ entry_files = <<>>
    /\ entry_result' = "No Python files found in " \o PathText(target.parts)
    /\ entry_pc' = "returned"
    /\ UNCHANGED <<nonEntryVars, analyzer, target, fs_tree, entry_files>>

\* Every collected path is read and parsed; the report is built from them.
ReadCollected ==
    /\ entry_pc = "collected"
    /\ entry_files # <<>>
    /\ \A i \in 1..Len(entry_files) : KindOf(target, fs_tree, entry_files[i]) = "file"
    /\ entry_pc' = "report"
    /\ UNCHANGED <<nonEntryVars, analyzer, target, fs_tree, entry_files, entry_result>>

\* read_text() of a collected path that is a directory raises
\* IsADirectoryError, which no except clause names.
ReadCollectedRaises ==
    /\ entry_pc = "collected"
    /\ \E i \in 1..Len(entry_files) : KindOf(target, fs_tree, entry_files[i]) # "file"
    /\ entry_pc' = "raised"
    /\ UNCHANGED <<nonEntryVars, analyzer, target, fs_tree, entry_files, entry_result>>

NextEntry ==
    \/ PathNotFound \/ CollectSorted \/ CollectUnsorted \/ NoPythonFiles
    \/ ReadCollected \/ ReadCollectedRaises

SpecEntry == InitEntry /\ [][NextEntry]_vars

\* The files of the tree that qualify: a regular file with the .py extension
\* whose path has no __pycache__ segment and no component that begins with a dot.
Qualifying ==
    LET candidates == IF target.kind = "file" THEN {target}
                      ELSE {[parts |-> target.parts \o e.parts, kind |-> e.kind] : e \in fs_tree}
    IN  {c.parts : c \in {x \in candidates :
            /\ x.kind = "file"
            /\ Last(x.parts) \in PyNames
            /\ ~(\E i \in 1..Len(x.parts) : x.parts[i] = "__pycache__")
            /\ ~(\E i \in 1..Len(x.parts) : x.parts[i] \in DotNames)}}

EntryDone == entry_pc \in {"returned", "report", "raised"}

\* C15: a missing root yields exactly "Error: Path not found: <path>", an
\* existing root with no qualifying file yields exactly "No Python files found
\* in <path>"; no exception is raised and no file is analysed.
C15_MissingOrEmptyMessages ==
    EntryDone =>
        /\ target.kind = "missing" =>
             /\ entry_pc = "returned"
             /\ entry_result = "Error: Path not found: " \o PathText(target.parts)
        /\ (target.kind # "missing" /\ Qualifying = {}) =>
             /\ entry_pc = "returned"
             /\ entry_result = "No Python files found in " \o PathText(target.parts)

\* C17: collect_py_files returns, in sorted order, exactly the qualifying
\* files, for a directory root and for a single-file root.
C17_CollectorReturnsQualifyingSorted ==
    (entry_pc = "collected" /\ analyzer \in {"complexity", "analyze"}) =>
        entry_files = SortPaths(Qualifying)

\* C26: every cycle the DFS returns is a closed path of the graph: first and
\* last element equal, every consecutive pair an edge, the elements before the
\* closing repeat pairwise distinct and at least two.
C26_CycleIsClosedPath ==
    \A i \in 1..Len(cycles) :
        LET c == cycles[i]
            n == Len(c) - 1
        IN  /\ n >= 2
            /\ c[1] = c[n + 1]
            /\ \A k \in 1..n : c[k + 1] \in Neighbors(dep_graph, c[k])
            /\ \A k, l \in 1..n : k # l => c[k] # c[l]

\* C26 witness: d imports a and a -> b -> c -> a: the returned three-module
\* cycle leaves out d, which was on the path when the DFS started at d.
C26_Witness ==
    /\ ArchDone
    /\ "d" \in DOMAIN dep_graph /\ dep_graph["d"] = {"a"}
    /\ cycles # <<>>
    /\ \A i \in 1..Len(cycles) : Len(cycles[i]) = 4 /\ "d" \notin SeqToSet(cycles[i])

\* The elementary cycles of the graph: sequences of pairwise distinct vertices
\* each with an edge to the next and the last with an edge to the first.
ElementaryCycles(graph) ==
    LET V == DOMAIN graph
        seqs == UNION {[1..n -> V] : n \in 1..Cardinality(V)}
    IN  {c \in seqs :
            /\ \A k, l \in 1..Len(c) : k # l => c[k] # c[l]
            /\ \A k \in 1..Len(c) : c[(k % Len(c)) + 1] \in graph[c[k]]}

\* The returned cycle r visits the vertices of c in the same cyclic order.
SameCyclicOrder(r, c) ==
    /\ Len(r) = Len(c) + 1
    /\ \E shift \in 0..(Len(c) - 1) :
         \A k \in 1..Len(c) : r[k] = c[((k - 1 + shift) % Len(c)) + 1]

\* C27: _find_cycles returns every elementary cycle of the graph, for every
\* start order and neighbour order.
C27_AllCyclesFound ==
    arch_pc \in {"report", "done"} =>
        \A c \in ElementaryCycles(dep_graph) :
            \E i \in 1..Len(cycles) : SameCyclicOrder(cycles[i], c)

\* The function definitions of a tree, wherever they are.
FunctionNodes(tree) == SelectSeq(Walk(tree), LAMBDA n : n.kind \in FunctionKinds)

\* What a definition's record holds when it is computed from the definition's
\* own subtree.
OwnRecord(d) ==
    [name |-> d.name, line |-> d.lineno, cyclomatic |-> 1 + ClaimedCount(d),
     max_depth |-> Max({NestingOn(p) : p \in PathsFrom(d)})]

RecordShown(f) ==
    [name |-> f.name, line |-> f.line, cyclomatic |-> f.cyclomatic,
     max_depth |-> f.max_depth]

\* C28: every function definition, nested in functions or classes or not,
\* yields exactly one record computed from its own subtree, and an enclosing
\* function's cyclomatic complexity is at least that of a function inside it.
C28_NestedFunctionsRecorded ==
    cx_pc \in {"group", "format", "done"} =>
        LET defs == FunctionNodes(source.tree)
        IN  /\ Len(all_functions) = Len(defs)
            /\ \A k \in 1..Len(defs) :
                 Cardinality({i \in 1..Len(all_functions) :
                                 RecordShown(all_functions[i]) = OwnRecord(defs[k])})
                 = Cardinality({l \in 1..Len(defs) : OwnRecord(defs[l]) = OwnRecord(defs[k])})
            /\ \A i, j \in 1..Len(all_functions) :
                 (\E n \in 2..Len(Walk(visit_list[i])) : Walk(visit_list[i])[n] = visit_list[j])
                    => all_functions[i].cyclomatic >= all_functions[j].cyclomatic

\* def f(): def inner(): if x: pass -- two records, both of cyclomatic 2
C28_Witness ==
    /\ CxDone
    /\ Len(all_functions) = 2
    /\ visit_list[1].body = <<visit_list[2]>>
    /\ visit_list[2].body = <<Compound("If", <<Name>>, <<Pass>>, <<>>)>>
    /\ all_functions[1].name = "f" /\ all_functions[1].cyclomatic = 2
    /\ all_functions[2].name = "inner" /\ all_functions[2].cyclomatic = 2

(***************************************************************************)
(* Text.  A string is the sequence of its characters, a report the         *)
(* sequence of its lines.  The characters U+2264, U+2265 and U+2192 are    *)
(* written "<=", ">=" and "->", the grave accent U+0060 is written "bt".   *)
(***************************************************************************)
LowerChars == {"a", "b", "c", "d", "e", "f", "g", "h", "i", "j", "k", "l", "m",
               "n", "o", "p", "q", "r", "s", "t", "u", "v", "w", "x", "y", "z"}
UpperChars == {"A", "B", "C", "D", "E", "F", "G", "H", "I", "J", "K", "L", "M",
               "N", "O", "P", "Q", "R", "S", "T", "U", "V", "W", "X", "Y", "Z"}
DigitChars == <<"0", "1", "2", "3", "4", "5", "6", "7", "8", "9">>

\* str.lower() of one character (of the letters the model's names use)
CharLower(c) ==
    CASE c = "V" -> "v" [] c = "B" -> "b" [] c = "H" -> "h" [] c = "C" -> "c"
      [] OTHER -> c

\* text.startswith(prefix)
StartsWith(text, prefix) ==
    Len(text) >= Len(prefix) /\ SubSeq(text, 1, Len(prefix)) = prefix

\* text.endswith(suffix)
EndsWith(text, suffix) ==
    Len(text) >= Len(suffix)
    /\ SubSeq(text, Len(text) - Len(suffix) + 1, Len(text)) = suffix

\* The positions at which pattern occurs in text.
Occurrences(text, pattern) ==
    {i \in 1..(Len(text) - Len(pattern) + 1) : SubSeq(text, i, i + Len(pattern) - 1) = pattern}

\* "pattern in text"
Contains(text, pattern) == Occurrences(text, pattern) # {}

\* "marker in result" for a marker without a line break
InResult(lines, marker) == \E i \in 1..Len(lines) : Contains(lines[i], marker)

RECURSIVE Split(_, _)
\* text.split(sep)
Split(text, sep) ==
    IF ~Contains(text, sep) THEN <<text>>
    ELSE LET i == Min(Occurrences(text, sep))
         IN  <<SubSeq(text, 1, i - 1)>> \o Split(SubSeq(text, i + Len(sep), Len(text)), sep)

RECURSIVE Replace(_, _, _)
\* text.replace(old, new)
Replace(text, old, new) ==
    IF ~Contains(text, old) THEN text
    ELSE LET i == Min(Occurrences(text, old))
         IN  SubSeq(text, 1, i - 1) \o new
             \o Replace(SubSeq(text, i + Len(old), Len(text)), old, new)

RECURSIVE Join(_, _)
\* sep.join(texts)
Join(texts, sep) ==
    IF texts = <<>> THEN <<>>
    ELSE IF Len(texts) = 1 THEN texts[1]
    ELSE texts[1] \o sep \o Join(Tail(texts), sep)

RECURSIVE Flatten(_)
\* The lines of "\n".join(pieces) when each piece is a sequence of lines.
Flatten(pieces) ==
    IF pieces = <<>> THEN <<>> ELSE Head(pieces) \o Flatten(Tail(pieces))

\* str(n) for 0 <= n <= 99
Str(n) ==
    IF n < 10 THEN <<DigitChars[n + 1]>>
    ELSE <<DigitChars[(n \div 10) + 1], DigitChars[(n % 10) + 1]>>

\* int(text) succeeds: text is one or more digits (no sign, spaces or
\* underscores occur in the texts of the model).
IsInt(text) ==
    text # <<>> /\ \A i \in 1..Len(text) : \E d \in 1..10 : DigitChars[d] = text[i]

RECURSIVE IntOf(_)
\* int(text) when IsInt(text)
IntOf(text) ==
    IF text = <<>> THEN 0
    ELSE 10 * IntOf(SubSeq(text, 1, Len(text) - 1))
         + (CHOOSE d \in 0..9 : DigitChars[d + 1] = text[Len(text)])

(***************************************************************************)
(* The report of complexity(path) as text: the lines of the returned       *)
(* string.  A function is [name, file, line, cyclomatic, lines, max_depth, *)
(* params] with name and file as texts.                                    *)
(***************************************************************************)
\* _formatters.format_header
FormatHeader(title, path_text, n_files, func_count) ==
    <<<<"#", " ">> \o title \o <<":", " ">> \o path_text, <<>>,
      <<"A", "n", "a", "l", "y", "z", "e", "d", " ">> \o Str(n_files)
        \o (IF n_files = 1 THEN <<" ", "f", "i", "l", "e">> ELSE <<" ", "f", "i", "l", "e", "s">>)
        \o (IF func_count >= 0
            THEN <<",", " ", "f", "o", "u", "n", "d", " ">> \o Str(func_count)
                 \o (IF func_count = 1 THEN <<" ", "f", "u", "n", "c", "t", "i", "o", "n">> ELSE <<" ", "f", "u", "n", "c", "t", "i", "o", "n", "s">>)
            ELSE <<>>)
        \o <<".">>,
      <<>>>>

\* _formatters.format_section(heading, items): the lines of the section; the
\* empty string when there are no items.
FormatSection(heading, items) ==
    IF items = <<>> THEN <<<<>>>>
    ELSE <<<<"#", "#", " ">> \o heading, <<>>>> \o items \o <<<<>>>>

\* _format_issues as text
FormatIssuesText(func) ==
    (IF func.cyclomatic > 5
     THEN <<<<"c", "y", "c", "l", "o", "m", "a", "t", "i", "c", " ", "c", "o", "m", "p", "l",
          "e", "x", "i", "t", "y", " ">> \o Str(func.cyclomatic)
              \o <<" ", "(", "t", "a", "r", "g", "e", "t", ":", " ", "<=", "5", ")">>>>
     ELSE <<>>)
    \o (IF func.lines > 20 THEN <<Str(func.lines)
        \o <<" ", "l", "i", "n", "e", "s", " ", "(", "t", "a", "r", "g", "e", "t", ":", " ",
          "<=", "2", "0", ")">>>> ELSE <<>>)
    \o (IF func.max_depth > 3
        THEN <<<<"n", "e", "s", "t", "i", "n", "g", " ", "d", "e", "p", "t", "h", " ">>
            \o Str(func.max_depth)
                \o <<" ", "(", "t", "a", "r", "g", "e", "t", ":", " ", "<=", "3", ")">>>>
        ELSE <<>>)
    \o (IF func.params > 4 THEN <<Str(func.params)
        \o <<" ", "p", "a", "r", "a", "m", "e", "t", "e", "r", "s", " ", "(", "t", "a", "r",
          "g", "e", "t", ":", " ", "<=", "4", ")">>>> ELSE <<>>)

\* the head of an entry: name, file and line
EntryHead(func) ==
    <<"bt">> \o func.name \o <<"bt", " ", "i", "n", " ", "bt">> \o func.file
        \o <<"bt", " ", "(", "l", "i", "n", "e", " ">> \o Str(func.line) \o <<")">>

RECURSIVE FormatHighComplexity(_)
\* _format_high_complexity, after its two leading lines
FormatHighComplexity(fs) ==
    IF fs = <<>> THEN <<>>
    ELSE LET func == Head(fs)
             issues == FormatIssuesText(func)
         IN  <<<<"#", "#", "#", " ">> \o EntryHead(func),
               <<"*", "*", "S", "c", "o", "r", "e", ":", " ">> \o Str(Score(func))
                   \o <<"*", "*">>,
               <<>>>>
             \o (IF issues # <<>>
                 THEN <<<<"I", "s", "s", "u", "e", "s", ":">>>>
                     \o [i \in 1..Len(issues) |-> <<"-", " ">> \o issues[i]]
                 ELSE <<>>)
             \o <<<<>>>>
             \o FormatHighComplexity(Tail(fs))

\* _format_medium_complexity
FormatMediumComplexity(fs) ==
    [i \in 1..Len(fs) |->
        <<"-", " ">> \o EntryHead(fs[i]) \o <<":", " ">>
        \o (IF FormatIssuesText(fs[i]) # <<>>
            THEN Join(FormatIssuesText(fs[i]), <<",", " ">>)
            ELSE <<"m", "o", "d", "e", "r", "a", "t", "e", " ", "c", "o", "m", "p", "l",
                   "e", "x", "i", "t", "y">>)]

\* _format_low_complexity
FormatLowComplexity(fs) ==
    [i \in 1..Len(fs) |->
        <<"-", " ">> \o EntryHead(fs[i]) \o <<":", " ", "s", "c", "o", "r", "e", " ">>
            \o Str(Score(fs[i]))]

\* _format_recommendations as text
FormatRecommendationsText(hi, all_filtered) ==
    (IF hi # <<>>
     THEN <<<<"-", " ", "*", "*", "H", "i", "g", "h", " ", "p", "r", "i", "o", "r", "i",
              "t", "y", "*", "*", ":", " ", "B", "r", "e", "a", "k", " ", "d", "o", "w",
              "n", " ", "c", "o", "m", "p", "l", "e", "x", " ", "f", "u", "n", "c", "t",
              "i", "o", "n", "s", " ", "u", "s", "i", "n", "g", " ", "E", "x", "t", "r",
              "a", "c", "t", " ", "M", "e", "t", "h", "o", "d">>,
            <<"-", " ", "C", "o", "n", "s", "i", "d", "e", "r", " ", "r", "e", "p", "l",
              "a", "c", "i", "n", "g", " ", "c", "o", "n", "d", "i", "t", "i", "o", "n",
              "a", "l", "s", " ", "w", "i", "t", "h", " ", "p", "o", "l", "y", "m", "o",
              "r", "p", "h", "i", "s", "m", " ", "o", "r", " ", "s", "t", "r", "a", "t",
              "e", "g", "y", " ", "p", "a", "t", "t", "e", "r", "n">>>>
     ELSE <<>>)
    \o (IF \E i \in 1..Len(all_filtered) : all_filtered[i].params > 4
        THEN <<<<"-", " ", "U", "s", "e", " ", "p", "a", "r", "a", "m", "e", "t", "e", "r",
                " ", "o", "b", "j", "e", "c", "t", "s", " ", "o", "r", " ", "b", "u", "i",
                "l", "d", "e", "r", " ", "p", "a", "t", "t", "e", "r", "n", " ", "f", "o",
                "r", " ", "m", "a", "n", "y", " ", "p", "a", "r", "a", "m", "e", "t", "e",
                "r", "s">>>>
        ELSE <<>>)
    \o (IF \E i \in 1..Len(all_filtered) : all_filtered[i].max_depth > 3
        THEN <<<<"-", " ", "R", "e", "d", "u", "c", "e", " ", "n", "e", "s", "t", "i", "n",
                "g", " ", "w", "i", "t", "h", " ", "e", "a", "r", "l", "y", " ", "r", "e",
                "t", "u", "r", "n", "s", " ", "(", "g", "u", "a", "r", "d", " ", "c", "l",
                "a", "u", "s", "e", "s", ")">>>>
        ELSE <<>>)
    \o (IF \E i \in 1..Len(all_filtered) : all_filtered[i].lines > 30
        THEN <<<<"-", " ", "E", "x", "t", "r", "a", "c", "t", " ", "h", "e", "l", "p", "e",
                "r", " ", "f", "u", "n", "c", "t", "i", "o", "n", "s", " ", "t", "o", " ",
                "r", "e", "d", "u", "c", "e", " ", "f", "u", "n", "c", "t", "i", "o", "n",
                " ", "l", "e", "n", "g", "t", "h">>>>
        ELSE <<>>)

\* complexity(path, threshold) from "lines = [format_header(...)]" on
ComplexityText(path_text, n_files, functions, thr) ==
    LET filtered == SortByScore(FilterByThreshold(functions, thr))
        hi == HighBand(filtered)
        med == MediumBand(filtered)
        lo == LowBand(filtered)
        recs == FormatRecommendationsText(hi, hi \o med \o lo)
    IN  FormatHeader(<<"C", "o", "m", "p", "l", "e", "x", "i", "t", "y", " ", "A", "n", "a",
                      "l", "y", "s", "i", "s">>, path_text, n_files, Len(functions))
        \o (IF hi \o med \o lo = <<>>
            THEN IF thr > 1
                 THEN <<<<"N", "o", " ", "f", "u", "n", "c", "t", "i", "o", "n", "s", " ",
                          "f", "o", "u", "n", "d", " ", "w", "i", "t", "h", " ", "c", "o",
                          "m", "p", "l", "e", "x", "i", "t", "y", " ", "s", "c", "o", "r",
                          "e", " ", ">=", " ">> \o Str(thr) \o <<".">>,
                        <<"A", "l", "l", " ", "f", "u", "n", "c", "t", "i", "o", "n", "s",
                          " ", "a", "r", "e", " ", "b", "e", "l", "o", "w", " ", "t", "h",
                          "r", "e", "s", "h", "o", "l", "d", ".">>>>
                 ELSE <<<<"N", "o", " ", "c", "o", "m", "p", "l", "e", "x", "i", "t", "y",
                          " ", "i", "s", "s", "u", "e", "s", " ", "f", "o", "u", "n", "d",
                          ".">>>>
            ELSE
              (IF hi # <<>>
               THEN FormatSection(<<"H", "i", "g", "h", " ", "C", "o", "m", "p", "l", "e", "x",
                                "i", "t", "y", " ", "(", "s", "c", "o", "r", "e", " ",
                                ">=", " ", "1", "0", ")">>,
                        <<<<"T", "h", "e", "s", "e", " ", "f", "u", "n", "c", "t", "i",
                            "o", "n", "s", " ", "s", "h", "o", "u", "l", "d", " ", "b",
                            "e", " ", "r", "e", "f", "a", "c", "t", "o", "r", "e", "d",
                            " ", "a", "s", " ", "a", " ", "p", "r", "i", "o", "r", "i",
                            "t", "y", ":">>, <<>>>>
                        \o FormatHighComplexity(hi))
               ELSE <<>>)
              \o (IF med # <<>>
                  THEN FormatSection(<<"M", "e", "d", "i", "u", "m", " ", "C", "o", "m", "p", "l",
                                "e", "x", "i", "t", "y", " ", "(", "s", "c", "o", "r", "e",
                                " ", "5", "-", "9", ")">>, FormatMediumComplexity(med))
                  ELSE <<>>)
              \o (IF lo # <<>> /\ thr < 5
                  THEN FormatSection(<<"L", "o", "w", " ", "C", "o", "m", "p", "l", "e", "x", "i",
                                "t", "y", " ", "(", "s", "c", "o", "r", "e", " ", "<", " ",
                                "5", ")">>, FormatLowComplexity(lo))
                  ELSE <<>>)
              \o (IF recs # <<>>
                  THEN FormatSection(<<"R", "e", "c", "o", "m", "m", "e", "n", "d", "a", "t", "i",
                                "o", "n", "s">>, recs)
                  ELSE <<>>))

(***************************************************************************)
(* The report of architecture(path) as text.  The findings are a record    *)
(* [cycles, violations, graph]: the deduplicated cycles as sequences of    *)
(* module names, the violations as <<importing, imported, from_layer,      *)
(* to_layer>>, the graph as <<module, dependencies>> in sorted order.      *)
(***************************************************************************)
\* _layer_name
LayerName(layer_num) ==
    CASE layer_num = 0 -> <<"d", "o", "m", "a", "i", "n", "/", "c", "o", "r", "e">>
      [] layer_num = 1 -> <<"a", "p", "p", "l", "i", "c", "a", "t", "i", "o", "n", "/",
                                "s", "e", "r", "v", "i", "c", "e", "s">>
      [] layer_num = 2 -> <<"i", "n", "t", "e", "r", "f", "a", "c", "e", "/", "a", "d",
                                "a", "p", "t", "e", "r", "s">>
      [] layer_num = 3 -> <<"i", "n", "f", "r", "a", "s", "t", "r", "u", "c", "t", "u", "r", "e">>
      [] OTHER -> <<"l", "a", "y", "e", "r", " ">> \o Str(layer_num)

\* "`name`"
Quoted(name) == <<"bt">> \o name \o <<"bt">>

\* architecture() from "lines = [...]" on
ArchitectureText(path_text, n_files, found) ==
    <<<<"#", " ", "A", "r", "c", "h", "i", "t", "e", "c", "t", "u", "r", "e", " ", "A",
        "n", "a", "l", "y", "s", "i", "s", ":", " ">> \o path_text, <<>>,
      <<"A", "n", "a", "l", "y", "z", "e", "d", " ">> \o Str(n_files)
          \o <<" ", "f", "i", "l", "e">>
        \o (IF n_files # 1 THEN <<"s">> ELSE <<>>) \o <<".">>,
      <<>>>>
    \o (IF found.cycles # <<>>
        THEN <<<<"#", "#", " ", "C", "i", "r", "c", "u", "l", "a", "r", " ", "D", "e", "p",
                "e", "n", "d", "e", "n", "c", "i", "e", "s">>, <<>>,
               <<"T", "h", "e", " ", "f", "o", "l", "l", "o", "w", "i", "n", "g", " ", "c",
                 "i", "r", "c", "u", "l", "a", "r", " ", "d", "e", "p", "e", "n", "d", "e",
                 "n", "c", "i", "e", "s", " ", "w", "e", "r", "e", " ", "d", "e", "t", "e",
                 "c", "t", "e", "d", ":">>, <<>>>>
             \o [i \in 1..Len(found.cycles) |->
                    <<"-", " ">> \o Join(found.cycles[i], <<" ", "->", " ">>)]
             \o <<<<>>,
                  <<"*", "*", "R", "e", "c", "o", "m", "m", "e", "n", "d", "a", "t", "i",
                    "o", "n", "*", "*", ":", " ", "B", "r", "e", "a", "k", " ", "c", "y",
                    "c", "l", "e", "s", " ", "b", "y", " ", "i", "n", "t", "r", "o", "d",
                    "u", "c", "i", "n", "g", " ", "i", "n", "t", "e", "r", "f", "a", "c",
                    "e", "s", " ", "o", "r">>,
                  <<"m", "o", "v", "i", "n", "g", " ", "s", "h", "a", "r", "e", "d", " ",
                    "c", "o", "d", "e", " ", "t", "o", " ", "a", " ", "s", "e", "p", "a",
                    "r", "a", "t", "e", " ", "m", "o", "d", "u", "l", "e", ".">>, <<>>>>
        ELSE <<>>)
    \o (IF found.violations # <<>>
        THEN <<<<"#", "#", " ", "L", "a", "y", "e", "r", " ", "V", "i", "o", "l", "a", "t",
                "i", "o", "n", "s">>, <<>>,
               <<"I", "n", "n", "e", "r", " ", "l", "a", "y", "e", "r", "s", " ", "s", "h",
                 "o", "u", "l", "d", " ", "n", "o", "t", " ", "d", "e", "p", "e", "n", "d",
                 " ", "o", "n", " ", "o", "u", "t", "e", "r", " ", "l", "a", "y", "e", "r",
                 "s", ":">>, <<>>>>
             \o [i \in 1..Len(found.violations) |->
                    LET v == found.violations[i]
                    IN  <<"-", " ">> \o Quoted(v[1]) \o <<" ", "(">> \o LayerName(v[3])
                        \o <<")", " ", "i", "m", "p", "o", "r", "t", "s", " ">>
                            \o Quoted(v[2]) \o <<" ", "(">> \o LayerName(v[4])
                        \o <<")">>]
             \o <<<<>>,
                  <<"*", "*", "R", "e", "c", "o", "m", "m", "e", "n", "d", "a", "t", "i",
                    "o", "n", "*", "*", ":", " ", "U", "s", "e", " ", "d", "e", "p", "e",
                    "n", "d", "e", "n", "c", "y", " ", "i", "n", "v", "e", "r", "s", "i",
                    "o", "n", " ", "-", " ", "d", "e", "f", "i", "n", "e", " ", "i", "n",
                    "t", "e", "r", "f", "a", "c", "e", "s">>,
                  <<"i", "n", " ", "i", "n", "n", "e", "r", " ", "l", "a", "y", "e", "r",
                    "s", ",", " ", "i", "m", "p", "l", "e", "m", "e", "n", "t", " ", "i",
                    "n", " ", "o", "u", "t", "e", "r", " ", "l", "a", "y", "e", "r", "s",
                    ".">>, <<>>>>
        ELSE <<>>)
    \o <<<<"#", "#", " ", "D", "e", "p", "e", "n", "d", "e", "n", "c", "y", " ", "G", "r",
            "a", "p", "h">>, <<>>>>
    \o (IF found.graph # <<>>
        THEN [i \in 1..Len(found.graph) |->
                 <<"-", " ">> \o Quoted(found.graph[i][1]) \o <<" ", "->", " ">>
                 \o Join([j \in 1..Len(found.graph[i][2]) |-> Quoted(found.graph[i][2][j])],
                         <<",", " ">>)]
        ELSE <<<<"N", "o", " ", "i", "n", "t", "e", "r", "n", "a", "l", " ", "d", "e",
                  "p", "e", "n", "d", "e", "n", "c", "i", "e", "s", " ", "b", "e", "t",
                  "w", "e", "e", "n", " ", "m", "o", "d", "u", "l", "e", "s", ".">>>>)
    \o <<<<>>>>
    \o (IF found.cycles = <<>> /\ found.violations = <<>>
        THEN <<<<"#", "#", " ", "S", "u", "m", "m", "a", "r", "y">>, <<>>,
               <<"N", "o", " ", "c", "i", "r", "c", "u", "l", "a", "r", " ", "d", "e", "p",
                 "e", "n", "d", "e", "n", "c", "i", "e", "s", " ", "o", "r", " ", "l", "a",
                 "y", "e", "r", " ", "v", "i", "o", "l", "a", "t", "i", "o", "n", "s", " ",
                 "f", "o", "u", "n", "d", ".">>>>
        ELSE <<>>)

(***************************************************************************)
(* analyze.py: the naming check                                            *)
(***************************************************************************)
\* re.match(r"^[a-z]+[A-Z]", name): one or more of a-z from the start, then
\* one of A-Z.
MatchesCamelPattern(name) ==
    \E k \in 1..(Len(name) - 1) :
        /\ \A i \in 1..k : name[i] \in LowerChars
        /\ name[k + 1] \in UpperChars

RECURSIVE LStrip(_, _)
\* text.lstrip(c)
LStrip(text, c) ==
    IF text # <<>> /\ Head(text) = c THEN LStrip(Tail(text), c) ELSE text

RECURSIVE UnderscoreUpper(_)
\* re.sub(r"([A-Z])", r"_\1", name)
UnderscoreUpper(name) ==
    IF name = <<>> THEN <<>>
    ELSE (IF Head(name) \in UpperChars THEN <<"_", Head(name)>> ELSE <<Head(name)>>)
         \o UnderscoreUpper(Tail(name))

\* _to_snake_case
ToSnakeCase(name) ==
    LET result == UnderscoreUpper(name)
    IN  LStrip([i \in 1..Len(result) |-> CharLower(result[i])], "_")

\* NamingVisitor._check_function_name: the issues of one definition
CheckFunctionName(func) ==
    IF StartsWith(func.name, <<"_", "_">>) /\ EndsWith(func.name, <<"_", "_">>)
    THEN <<>>
    ELSE (IF Len(func.name) = 1 /\ func.name # <<"_">>
          THEN <<[name |-> func.name, file |-> func.file, line |-> func.line,
                  issue_type |-> "too_short",
                  suggestion |-> <<"U", "s", "e", " ", "a", " ", "d", "e", "s", "c", "r",
                                  "i", "p", "t", "i", "v", "e", " ", "n", "a", "m", "e",
                                  " ", "t", "h", "a", "t", " ", "e", "x", "p", "l", "a",
                                  "i", "n", "s", " ", "t", "h", "e", " ", "f", "u", "n",
                                  "c", "t", "i", "o", "n", "'", "s", " ", "p", "u", "r",
                                  "p", "o", "s", "e">>]>>
          ELSE <<>>)
         \o (IF MatchesCamelPattern(func.name) /\ ~Contains(func.name, <<"_">>)
             THEN <<[name |-> func.name, file |-> func.file, line |-> func.line,
                     issue_type |-> "camel_case",
                     suggestion |-> <<"U", "s", "e", " ", "s", "n", "a", "k", "e", "_", "c",
                                     "a", "s", "e", ":", " ">> \o ToSnakeCase(func.name)]>>
             ELSE <<>>)

RECURSIVE AnalyzeNaming(_)
\* _run_naming_analysis: all_issues over the definitions of the files
AnalyzeNaming(functions) ==
    IF functions = <<>> THEN <<>>
    ELSE CheckFunctionName(Head(functions)) \o AnalyzeNaming(Tail(functions))

\* _format_naming_report
FormatNamingReport(issues) ==
    LET short == SelectSeq(issues, LAMBDA i : i.issue_type = "too_short")
        camel == SelectSeq(issues, LAMBDA i : i.issue_type = "camel_case")
    IN  (IF short # <<>>
         THEN <<<<"#", "#", "#", " ", "S", "i", "n", "g", "l", "e", "-", "L", "e", "t",
                  "t", "e", "r", " ", "N", "a", "m", "e", "s">>, <<>>,
                <<"F", "u", "n", "c", "t", "i", "o", "n", " ", "n", "a", "m", "e", "s",
                  " ", "s", "h", "o", "u", "l", "d", " ", "b", "e", " ", "d", "e", "s",
                  "c", "r", "i", "p", "t", "i", "v", "e", ":">>, <<>>>>
              \o [k \in 1..Len(short) |->
                     <<"-", " ">> \o EntryHead([name |-> short[k].name, file |-> short[k].file,
                                                line |-> short[k].line])]
              \o <<<<>>>>
         ELSE <<>>)
        \o (IF camel # <<>>
            THEN <<<<"#", "#", "#", " ", "C", "a", "m", "e", "l", "C", "a", "s", "e", " ",
                     "I", "n", "s", "t", "e", "a", "d", " ", "o", "f", " ", "s", "n", "a",
                     "k", "e", "_", "c", "a", "s", "e">>, <<>>,
                   <<"P", "y", "t", "h", "o", "n", " ", "c", "o", "n", "v", "e", "n", "t",
                     "i", "o", "n", "s", " ", "p", "r", "e", "f", "e", "r", " ", "s", "n",
                     "a", "k", "e", "_", "c", "a", "s", "e", " ", "f", "o", "r", " ", "f",
                     "u", "n", "c", "t", "i", "o", "n", "s", ":">>, <<>>>>
                 \o [k \in 1..Len(camel) |->
                        <<"-", " ">>
                            \o EntryHead([name |-> camel[k].name, file |-> camel[k].file,
                                                   line |-> camel[k].line])
                        \o <<":", " ">> \o camel[k].suggestion]
                 \o <<<<>>>>
            ELSE <<>>)

\* _run_naming_analysis: the recommendations
NamingRecommendations(issues) ==
    (IF \E k \in 1..Len(issues) : issues[k].issue_type = "too_short"
     THEN <<<<"U", "s", "e", " ", "d", "e", "s", "c", "r", "i", "p", "t", "i", "v", "e",
              " ", "n", "a", "m", "e", "s", " ", "t", "h", "a", "t", " ", "e", "x", "p",
              "l", "a", "i", "n", " ", "p", "u", "r", "p", "o", "s", "e">>>>
     ELSE <<>>)
    \o (IF \E k \in 1..Len(issues) : issues[k].issue_type = "camel_case"
        THEN <<<<"F", "o", "l", "l", "o", "w", " ", "P", "y", "t", "h", "o", "n", " ", "n",
                 "a", "m", "i", "n", "g", " ", "c", "o", "n", "v", "e", "n", "t", "i", "o",
                 "n", "s", " ", "(", "s", "n", "a", "k", "e", "_", "c", "a", "s", "e", " ",
                 "f", "o", "r", " ", "f", "u", "n", "c", "t", "i", "o", "n", "s", ")">>>>
        ELSE <<>>)

(***************************************************************************)
(* analyze(path, focus)                                                    *)
(***************************************************************************)
MaxNameLen == 3
MaxAnalyzed == 2

\* "if line.startswith('# ') or line.startswith('Analyzed '): continue"
WithoutHeader(result) ==
    SelectSeq(result, LAMBDA line :
        ~StartsWith(line, <<"#", " ">>) /\ ~StartsWith(line, <<"A", "n", "a", "l", "y", "z", "e", "d", " ">>))

HighMarker == <<"H", "i", "g", "h", " ", "C", "o", "m", "p", "l", "e", "x", "i", "t", "y">>
MediumMarker == <<"M", "e", "d", "i", "u", "m", " ", "C", "o", "m", "p", "l", "e", "x", "i", "t", "y">>

\* _run_complexity_analysis: <<output, has_issues, recommendations>> from the
\* text complexity(path) returned
RunComplexityAnalysis(result) ==
    LET has_issues == InResult(result, HighMarker) \/ InResult(result, MediumMarker)
    IN  <<IF has_issues THEN WithoutHeader(result) ELSE <<>>,
          has_issues,
          IF has_issues /\ InResult(result, HighMarker)
          THEN <<<<"B", "r", "e", "a", "k", " ", "d", "o", "w", "n", " ", "c", "o", "m",
                   "p", "l", "e", "x", " ", "f", "u", "n", "c", "t", "i", "o", "n", "s",
                   " ", "u", "s", "i", "n", "g", " ", "E", "x", "t", "r", "a", "c", "t",
                   " ", "M", "e", "t", "h", "o", "d", " ", "r", "e", "f", "a", "c", "t",
                   "o", "r", "i", "n", "g">>>>
          ELSE <<>>>>

\* _run_architecture_analysis, from the text architecture(path) returned
RunArchitectureAnalysis(result) ==
    LET has_issues == \/ InResult(result, <<"C", "i", "r", "c", "u", "l", "a", "r", " ", "D",
                                        "e", "p", "e", "n", "d", "e", "n", "c", "i", "e",
                                        "s">>)
                      \/ InResult(result, <<"L", "a", "y", "e", "r", " ", "V", "i", "o", "l",
                                        "a", "t", "i", "o", "n", "s">>)
    IN  <<IF has_issues THEN WithoutHeader(result) ELSE <<>>,
          has_issues,
          IF has_issues
          THEN (IF InResult(result, <<"C", "i", "r", "c", "u", "l", "a", "r">>)
                THEN <<<<"B", "r", "e", "a", "k", " ", "c", "i", "r", "c", "u", "l", "a",
                         "r", " ", "d", "e", "p", "e", "n", "d", "e", "n", "c", "i", "e",
                         "s", " ", "b", "y", " ", "i", "n", "t", "r", "o", "d", "u", "c",
                         "i", "n", "g", " ", "i", "n", "t", "e", "r", "f", "a", "c", "e",
                         "s">>>>
                ELSE <<>>)
               \o (IF InResult(result, <<"L", "a", "y", "e", "r", " ", "V", "i", "o", "l",
                                         "a", "t", "i", "o", "n">>)
                   THEN <<<<"A", "p", "p", "l", "y", " ", "d", "e", "p", "e", "n", "d",
                            "e", "n", "c", "y", " ", "i", "n", "v", "e", "r", "s", "i",
                            "o", "n", " ", "t", "o", " ", "f", "i", "x", " ", "l", "a",
                            "y", "e", "r", " ", "v", "i", "o", "l", "a", "t", "i", "o",
                            "n", "s">>>>
                   ELSE <<>>)
          ELSE <<>>>>

\* _run_naming_analysis
RunNamingAnalysis(functions) ==
    LET naming_issues == AnalyzeNaming(functions)
    IN  <<FormatNamingReport(naming_issues), naming_issues # <<>>,
          NamingRecommendations(naming_issues)>>

\* The identifiers of up to MaxNameLen characters over a small alphabet.
NameChars == {"a", "b", "V", "2", "_"}
NameSamples ==
    {n \in UNION {[1..k -> NameChars] : k \in 1..MaxNameLen} : n[1] # "2"}
    \cup {<<"_", "_", "a", "V", "_", "_">>}

FunctionNamed(n, l, c) ==
    [name |-> n, file |-> <<"m", ".", "p", "y">>, line |-> l, cyclomatic |-> c,
     lines |-> 10, max_depth |-> 0, params |-> 0]

\* Lists of up to MaxAnalyzed functions of low, medium and high score.
AnalyzedLists ==
    UNION {{[i \in 1..k |-> FunctionNamed(pick[i][1], i, pick[i][2])]
            : pick \in [1..k -> {<<"a", "V">>, <<"a">>, <<"a", "b">>} \X {1, 6, 12}]}
           : k \in 0..MaxAnalyzed}

NoFindings == [cycles |-> <<>>, violations |-> <<>>, graph |-> <<>>]
ArchFindings ==
    {[cycles |-> c, violations |-> v, graph |-> g] :
        c \in {<<>>, <<<<<<"a">>, <<"b">>, <<"a">>>>>>},
        v \in {<<>>, <<<<<<"u">>, <<"d">>, 0, 3>>>>},
        g \in {<<<<<<"a">>, <<<<"b">>>>>>>>}}
    \cup {NoFindings}

AnPaths == {<<"p", "r", "o", "j">>, <<"H", "i", "g", "h", " ", "C", "o", "m", "p", "l", "e", "x",
                                "i", "t", "y">>}
FocusArgs == {"", "all", "complexity", "architecture", "naming", "duplication"}

InitAnalyze ==
    /\ \/ /\ an_tree \in {[n_files |-> 1, functions |-> <<FunctionNamed(n, 1, 1)>>,
                           arch |-> NoFindings] : n \in NameSamples}
          /\ an_path = <<"p", "r", "o", "j">>
          /\ an_focus_arg \in {"", "naming"}
       \/ /\ an_tree \in {[n_files |-> 2, functions |-> fs, arch |-> a]
                          : fs \in AnalyzedLists, a \in ArchFindings}
          /\ an_path \in AnPaths
          /\ an_focus_arg \in FocusArgs
    /\ an_pc = "call"
    /\ an_focus = "" /\ an_lines = <<>> /\ issues_found = FALSE
    /\ all_recommendations = <<>> /\ an_ran = {} /\ an_report = <<>>
    /\ NonAnIdle

\* "focus = focus or 'all'" ... "lines = [format_header(...)]"
AnalyzeEnter ==
    /\ an_pc = "call"
    /\ an_focus' = IF an_focus_arg = "" THEN "all" ELSE an_focus_arg
    /\ an_lines' = FormatHeader(<<"C", "o", "d", "e", " ", "A", "n", "a", "l", "y", "s", "i",
                                "s">>, an_path, an_tree.n_files, -1)
    /\ an_pc' = "complexity"
    /\ UNCHANGED <<nonAnVars, an_path, an_focus_arg, an_tree, issues_found,
                   all_recommendations, an_ran, an_report>>

\* What an analyzer's <<output, has_issues, recs>> does to the report.
Absorb(heading, r) ==
    /\ an_lines' = IF r[2] THEN an_lines \o FormatSection(heading, r[1]) ELSE an_lines
    /\ issues_found' = (issues_found \/ r[2])
    /\ all_recommendations' = IF r[2] THEN all_recommendations \o r[3]
                              ELSE all_recommendations

\* "if focus in ('complexity', 'all')"
RunComplexity ==
    /\ an_pc = "complexity"
    /\ an_focus \in {"complexity", "all"}
    /\ \E r \in {RunComplexityAnalysis(
                    ComplexityText(an_path, an_tree.n_files, an_tree.functions, 1))} :
         Absorb(<<"C", "o", "m", "p", "l", "e", "x", "i", "t", "y", " ", "A", "n", "a",
                   "l", "y", "s", "i", "s">>, r)
    /\ an_ran' = an_ran \cup {"complexity"}
    /\ an_pc' = "architecture"
    /\ UNCHANGED <<nonAnVars, an_path, an_focus_arg, an_tree, an_focus, an_report>>

SkipComplexity ==
    /\ an_pc = "complexity"
    /\ an_focus \notin {"complexity", "all"}
    /\ an_pc' = "architecture"
    /\ UNCHANGED <<nonAnVars, an_path, an_focus_arg, an_tree, an_focus, an_lines,
                   issues_found, all_recommendations, an_ran, an_report>>

\* "if focus in ('architecture', 'all')"
RunArchitecture ==
    /\ an_pc = "architecture"
    /\ an_focus \in {"architecture", "all"}
    /\ \E r \in {RunArchitectureAnalysis(
                    ArchitectureText(an_path, an_tree.n_files, an_tree.arch))} :
         Absorb(<<"A", "r", "c", "h", "i", "t", "e", "c", "t", "u", "r", "e", " ", "A",
                   "n", "a", "l", "y", "s", "i", "s">>, r)
    /\ an_ran' = an_ran \cup {"architecture"}
    /\ an_pc' = "naming"
    /\ UNCHANGED <<nonAnVars, an_path, an_focus_arg, an_tree, an_focus, an_report>>

SkipArchitecture ==
    /\ an_pc = "architecture"
    /\ an_focus \notin {"architecture", "all"}
    /\ an_pc' = "naming"
    /\ UNCHANGED <<nonAnVars, an_path, an_focus_arg, an_tree, an_focus, an_lines,
                   issues_found, all_recommendations, an_ran, an_report>>

\* "if focus in ('naming', 'all')"
RunNaming ==
    /\ an_pc = "naming"
    /\ an_focus \in {"naming", "all"}
    /\ \E r \in {RunNamingAnalysis(an_tree.functions)} :
         Absorb(<<"N", "a", "m", "i", "n", "g", " ", "C", "o", "n", "v", "e", "n", "t",
                   "i", "o", "n", " ", "I", "s", "s", "u", "e", "s">>, r)
    /\ an_ran' = an_ran \cup {"naming"}
    /\ an_pc' = "summary"
    /\ UNCHANGED <<nonAnVars, an_path, an_focus_arg, an_tree, an_focus, an_report>>

SkipNaming ==
    /\ an_pc = "naming"
    /\ an_focus \notin {"naming", "all"}
    /\ an_pc' = "summary"
    /\ UNCHANGED <<nonAnVars, an_path, an_focus_arg, an_tree, an_focus, an_lines,
                   issues_found, all_recommendations, an_ran, an_report>>

SummaryHeading == <<"#", "#", " ", "S", "u", "m", "m", "a", "r", "y">>
NoIssuesSentinel ==
    <<"N", "o", " ", "m", "a", "j", "o", "r", " ", "c", "o", "d", "e", " ", "q", "u", "a",
      "l", "i", "t", "y", " ", "i", "s", "s", "u", "e", "s", " ", "f", "o", "u", "n", "d",
      ".", " ", "T", "h", "e", " ", "c", "o", "d", "e", "b", "a", "s", "e", " ", "l", "o",
      "o", "k", "s", " ", "c", "l", "e", "a", "n", "!">>
RecommendationsHeading == <<"#", "#", "#", " ", "R", "e", "c", "o", "m", "m", "e", "n",
                            "d", "a", "t", "i", "o", "n", "s">>

\* "# Summary" ... "return '\n'.join(lines)"
Summarize ==
    /\ an_pc = "summary"
    /\ an_report' =
         an_lines \o <<SummaryHeading, <<>>>>
         \o (IF ~issues_found
             THEN <<NoIssuesSentinel>>
             ELSE <<RecommendationsHeading, <<>>>>
                  \o [i \in 1..Len(all_recommendations) |->
                         Str(i) \o <<".", " ">> \o all_recommendations[i]])
    /\ an_pc' = "done"
    /\ UNCHANGED <<nonAnVars, an_path, an_focus_arg, an_tree, an_focus, an_lines,
                   issues_found, all_recommendations, an_ran>>

NextAnalyze ==
    \/ AnalyzeEnter
    \/ RunComplexity \/ SkipComplexity
    \/ RunArchitecture \/ SkipArchitecture
    \/ RunNaming \/ SkipNaming
    \/ Summarize

SpecAnalyze == InitAnalyze /\ [][NextAnalyze]_vars

AnDone == an_pc = "done"

\* The name starts with a lowercase letter, has an uppercase letter at a later
\* position and has no underscore.
ClaimedCamelCase(name) ==
    /\ name[1] \in LowerChars
    /\ \E i \in 2..Len(name) : name[i] \in UpperChars
    /\ \A i \in 1..Len(name) : name[i] # "_"

IsDunder(name) == StartsWith(name, <<"_", "_">>) /\ EndsWith(name, <<"_", "_">>)

\* The report lists the function under "CamelCase Instead of snake_case".
FlaggedCamelCase(func) ==
    \E i \in 1..Len(an_report) :
        StartsWith(an_report[i],
                   <<"-", " ">> \o EntryHead(func)
                   \o <<":", " ", "U", "s", "e", " ", "s", "n", "a", "k", "e", "_", "c", "a",
                     "s", "e", ":", " ">>)

\* C21: a non-dunder function name is flagged camel_case if and only if it
\* starts with a lowercase letter, has an uppercase letter at a later position
\* and has no underscore (a digit before the first uppercase letter included).
C21_CamelCaseIffLowerThenUpper ==
    (AnDone /\ "naming" \in an_ran) =>
        \A i \in 1..Len(an_tree.functions) :
            LET func == an_tree.functions[i]
            IN  ~IsDunder(func.name) =>
                    (FlaggedCamelCase(func) <=> ClaimedCamelCase(func.name))

AllAnalyzers == {"complexity", "architecture", "naming", "duplication"}

\* C22: under a focus f of complexity, architecture, naming or duplication the
\* orchestrator runs exactly the analyzer f; under all it runs all of them.
C22_FocusRunsNamedAnalyzer ==
    AnDone =>
        /\ an_focus \in AllAnalyzers => an_ran = {an_focus}
        /\ an_focus = "all" => {"complexity", "architecture", "naming"} \subseteq an_ran

\* What the selected analyzers have to find in the tree.
Selected(a) == an_focus \in {a, "all"}
SomethingFound ==
    \/ Selected("complexity")
         /\ \E i \in 1..Len(an_tree.functions) : Score(an_tree.functions[i]) >= 5
    \/ Selected("architecture")
         /\ (an_tree.arch.cycles # <<>> \/ an_tree.arch.violations # <<>>)
    \/ Selected("naming")
         /\ \E i \in 1..Len(an_tree.functions) :
               LET n == an_tree.functions[i].name
               IN  /\ ~IsDunder(n)
                   /\ \/ Len(n) = 1 /\ n # <<"_">>
                      \/ MatchesCamelPattern(n) /\ ~Contains(n, <<"_">>)

\* The lines of the report after its last "## Summary" line.
SummaryLines ==
    LET at == {i \in 1..Len(an_report) : an_report[i] = SummaryHeading}
    IN  IF at = {} THEN <<>>
        ELSE SubSeq(an_report, (CHOOSE i \in at : \A j \in at : j <= i) + 1, Len(an_report))

\* C23: the report ends with a Summary section that holds the no-issues
\* sentinel exactly when no selected analyzer found anything, and otherwise
\* a list numbered 1..n without a repeated recommendation.
C23_SummarySentinelIffNothingFound ==
    AnDone =>
        /\ SummaryLines # <<>>
        /\ (\E i \in 1..Len(SummaryLines) : SummaryLines[i] = NoIssuesSentinel)
              <=> ~SomethingFound
        /\ SomethingFound =>
              LET items == SelectSeq(SummaryLines, LAMBDA l : Contains(l, <<".", " ">>))
              IN  /\ \A k \in 1..Len(items) : StartsWith(items[k], Str(k) \o <<".", " ">>)
                  /\ \A k, l \in 1..Len(items) :
                        k # l => Split(items[k], <<".", " ">>)[2] # Split(items[l], <<".", " ">>)[2]

(***************************************************************************)
(* refactor._analyze_complexity(path): the report of complexity(path) is   *)
(* parsed line by line into RefactorIssue records.  One action per branch  *)
(* of the loop body.                                                       *)
(***************************************************************************)
MaxChainFuncs == 3

\* None, where the code holds a text or None
NoneText == <<"None">>
\* None, where the code holds a line number or None
NoneLine == -1

\* "x or default" / "if x:" for a text or None
Truthy(text) == text # NoneText /\ text # <<>>

ChainFile == {<<"m", ".", "p", "y">>, <<"a", "(", "l", "i", "n", "e", " ", "x", ")", ".", "p", "y">>}
ChainNames == <<<<"f">>, <<"g">>, <<"h">>, <<"k">>>>
\* a function of low, medium or high score, the high one with one or two issues
ChainShapes == {<<1, 10>>, <<6, 10>>, <<12, 10>>, <<12, 24>>}

ChainFunction(i, file, shape) ==
    [name |-> ChainNames[i], file |-> file, line |-> i, cyclomatic |-> shape[1],
     lines |-> shape[2], max_depth |-> 0, params |-> 0]

ChainLists ==
    UNION {{[i \in 1..k |-> ChainFunction(i, pick[i][1], pick[i][2])]
            : pick \in [1..k -> ChainFile \X ChainShapes]}
           : k \in 0..MaxChainFuncs}

InitChain ==
    /\ chain_tree \in {[n_files |-> 2, functions |-> fs] : fs \in ChainLists}
    /\ chain_pc = "call" /\ chain_result = <<>> /\ line_no = 0
    /\ current_section = "None" /\ current_func = NoneText /\ current_file = NoneText
    /\ current_line = NoneLine /\ current_details = <<>> /\ chain_issues = <<>>
    /\ ArchIdle /\ CxIdle /\ RfIdle /\ CallerIdle /\ EntryIdle /\ AnIdle
    /\ RegIdle /\ TraceIdle /\ McpIdle

nonChainVars == <<archVars, cxVars, rfVars, callVars, entryVars, anVars, regVars,
                 traceVars, mcpVars>>

\* "result = complexity(path)"
CallComplexity ==
    /\ chain_pc = "call"
    /\ chain_result' = ComplexityText(<<"p", "r", "o", "j">>, chain_tree.n_files,
                                      chain_tree.functions, 1)
    /\ line_no' = 1
    /\ chain_pc' = "lines"
    /\ UNCHANGED <<nonChainVars, chain_tree, current_section, current_func, current_file,
                   current_line, current_details, chain_issues>>

\* save_high_complexity_issue(): the issues list after the call
SaveHighComplexityIssue ==
    IF Truthy(current_func)
    THEN Append(chain_issues,
                [category |-> "complexity", priority |-> 1,
                 title |-> <<"H", "i", "g", "h", " ", "c", "o", "m", "p", "l", "e", "x",
                             "i", "t", "y", ":", " ">>
                           \o <<"bt">> \o current_func \o <<"bt">>,
                 description |-> <<"F", "u", "n", "c", "t", "i", "o", "n", " ", "i", "s",
                                  " ", "t", "o", "o", " ", "c", "o", "m", "p", "l", "e", "x">>,
                 file |-> IF Truthy(current_file) THEN current_file ELSE <<>>,
                 line |-> IF current_line \in {NoneLine, 0} THEN 0 ELSE current_line,
                 recommendation |-> "Break down using Extract Method refactoring",
                 details |-> current_details])
    ELSE chain_issues

HighHeading == <<"#", "#", " ", "H", "i", "g", "h", " ", "C", "o", "m", "p", "l", "e", "x", "i", "t",
      "y">>
MediumHeading == <<"#", "#", " ", "M", "e", "d", "i", "u", "m", " ", "C", "o", "m", "p", "l", "e", "x",
      "i", "t", "y">>
LowHeading == <<"#", "#", " ", "L", "o", "w", " ", "C", "o", "m", "p", "l", "e", "x", "i", "t", "y">>
RecommendationsMarker == <<"#", "#", " ", "R", "e", "c", "o", "m", "m", "e", "n", "d", "a", "t", "i", "o", "n",
      "s">>
LineMarker == <<"(", "l", "i", "n", "e", " ">>

\* the line the for loop is at
InLoop == chain_pc = "lines" /\ line_no <= Len(chain_result)
Line == chain_result[line_no]
NextLine == line_no' = line_no + 1 /\ UNCHANGED <<nonChainVars, chain_tree, chain_pc, chain_result>>

\* "int(line.split('(line ')[1].split(')')[0])": the text handed to int()
LineNumberText(line) == Split(Split(line, LineMarker)[2], <<")">>)[1]

\* if "## High Complexity" in line
AtHighHeading ==
    /\ InLoop /\ Contains(Line, HighHeading)
    /\ current_section' = "high"
    /\ UNCHANGED <<current_func, current_file, current_line, current_details, chain_issues>>
    /\ NextLine

\* elif "## Medium Complexity" in line
AtMediumHeading ==
    /\ InLoop /\ ~Contains(Line, HighHeading) /\ Contains(Line, MediumHeading)
    /\ chain_issues' = SaveHighComplexityIssue
    /\ current_section' = "medium"
    /\ current_func' = NoneText
    /\ current_details' = <<>>
    /\ UNCHANGED <<current_file, current_line>>
    /\ NextLine

\* elif "## Low Complexity" in line or "## Recommendations" in line
AtLowOrRecommendations ==
    /\ InLoop /\ ~Contains(Line, HighHeading) /\ ~Contains(Line, MediumHeading)
    /\ Contains(Line, LowHeading) \/ Contains(Line, RecommendationsMarker)
    /\ chain_issues' = IF current_section = "high" THEN SaveHighComplexityIssue
                       ELSE chain_issues
    /\ current_section' = "None"
    /\ current_func' = NoneText
    /\ current_details' = <<>>
    /\ UNCHANGED <<current_file, current_line>>
    /\ NextLine

NoHeading ==
    /\ ~Contains(Line, HighHeading) /\ ~Contains(Line, MediumHeading)
    /\ ~Contains(Line, LowHeading) /\ ~Contains(Line, RecommendationsMarker)

\* elif current_section == "high" and line.startswith("### ")
AtHighEntry ==
    /\ InLoop /\ NoHeading
    /\ current_section = "high" /\ StartsWith(Line, <<"#", "#", "#", " ">>)
    /\ chain_issues' = SaveHighComplexityIssue
    /\ current_details' = <<>>
    /\ \E parts \in {Split(Replace(Line, <<"#", "#", "#", " ", "bt">>, <<>>), <<"bt">>)} :
        /\ current_file' = IF Len(parts) > 2 THEN parts[3] ELSE NoneText
        /\ IF Contains(Line, LineMarker)
           THEN IF IsInt(LineNumberText(Line))
                THEN /\ current_func' = parts[1]
                     /\ current_line' = IntOf(LineNumberText(Line))
                ELSE \* ValueError
                     /\ current_func' = NoneText
                     /\ current_line' = NoneLine
           ELSE /\ current_func' = parts[1]
                /\ current_line' = NoneLine
    /\ UNCHANGED current_section
    /\ NextLine

\* elif current_section == "high" and line.startswith("- ")
AtHighDetail ==
    /\ InLoop /\ NoHeading
    /\ current_section = "high" /\ ~StartsWith(Line, <<"#", "#", "#", " ">>)
    /\ StartsWith(Line, <<"-", " ">>)
    /\ current_details' = Append(current_details, SubSeq(Line, 3, Len(Line)))
    /\ UNCHANGED <<current_section, current_func, current_file, current_line, chain_issues>>
    /\ NextLine

\* elif current_section == "medium" and line.startswith("- `")
AtMediumEntry ==
    /\ InLoop /\ NoHeading
    /\ current_section = "medium" /\ StartsWith(Line, <<"-", " ", "bt">>)
    /\ \E parts \in {Split(Replace(Line, <<"-", " ", "bt">>, <<>>), <<"bt">>)} :
        IF Contains(Line, LineMarker) /\ ~IsInt(LineNumberText(Line))
        THEN \* ValueError: "pass"
             chain_issues' = chain_issues
        ELSE chain_issues' =
                Append(chain_issues,
                       [category |-> "complexity", priority |-> 2,
                        title |-> <<"M", "e", "d", "i", "u", "m", " ", "c", "o", "m", "p",
                                    "l", "e", "x", "i", "t", "y", ":", " ">>
                                  \o <<"bt">> \o parts[1] \o <<"bt">>,
                        description |->
                            IF Contains(Line, <<")", ":", " ">>)
                               /\ Split(Line, <<")", ":", " ">>)[2] # <<>>
                            THEN Split(Line, <<")", ":", " ">>)[2]
                            ELSE <<"M", "o", "d", "e", "r", "a", "t", "e", " ", "c", "o",
                                   "m", "p", "l", "e", "x", "i", "t", "y">>,
                        file |-> IF Len(parts) > 2 THEN parts[3] ELSE <<>>,
                        line |-> IF Contains(Line, LineMarker)
                                 THEN IntOf(LineNumberText(Line)) ELSE 0,
                        recommendation |-> "Consider simplifying",
                        details |-> <<>>])
    /\ UNCHANGED <<current_section, current_func, current_file, current_line,
                   current_details>>
    /\ NextLine

\* no branch of the loop body applies to the line
AtOtherLine ==
    /\ InLoop /\ NoHeading
    /\ current_section = "high" =>
          ~StartsWith(Line, <<"#", "#", "#", " ">>) /\ ~StartsWith(Line, <<"-", " ">>)
    /\ current_section = "medium" => ~StartsWith(Line, <<"-", " ", "bt">>)
    /\ UNCHANGED <<current_section, current_func, current_file, current_line,
                   current_details, chain_issues>>
    /\ NextLine

\* after the loop: "if current_section == 'high': save_high_complexity_issue()"
AfterLoop ==
    /\ chain_pc = "lines" /\ line_no > Len(chain_result)
    /\ chain_issues' = IF current_section = "high" THEN SaveHighComplexityIssue
                       ELSE chain_issues
    /\ chain_pc' = "done"
    /\ UNCHANGED <<nonChainVars, chain_tree, chain_result, line_no, current_section,
                   current_func, current_file, current_line, current_details>>

NextChain ==
    \/ CallComplexity
    \/ AtHighHeading \/ AtMediumHeading \/ AtLowOrRecommendations
    \/ AtHighEntry \/ AtHighDetail \/ AtMediumEntry \/ AtOtherLine
    \/ AfterLoop

SpecChain == InitChain /\ [][NextChain]_vars

ChainDone == chain_pc = "done"

\* the names in the titles of the issues of one priority, in order
IssueNames(priority, prefix) ==
    LET picked == SelectSeq(chain_issues, LAMBDA i : i.priority = priority)
    IN  [k \in 1..Len(picked) |->
            SubSeq(picked[k].title, Len(prefix) + 2, Len(picked[k].title) - 1)]

NamesOf(fs) == [k \in 1..Len(fs) |-> fs[k].name]

\* C29: the parse of the complexity report loses no count: the priority-1
\* "High complexity" issues are the functions of score 10 or more, one each
\* and in the order of the report, the priority-2 "Medium complexity" issues
\* are the functions of score 5 to 9, and no other line makes an issue.
C29_ChainParseKeepsCounts ==
    ChainDone =>
        LET ranked == SortByScore(chain_tree.functions)
        IN  /\ IssueNames(1, <<"H", "i", "g", "h", " ", "c", "o", "m", "p", "l", "e", "x",
                             "i", "t", "y", ":", " ">>)
                   = NamesOf(HighBand(ranked))
            /\ IssueNames(2, <<"M", "e", "d", "i", "u", "m", " ", "c", "o", "m", "p",
                                    "l", "e", "x", "i", "t", "y", ":", " ">>)
                   = NamesOf(MediumBand(ranked))
            /\ Len(chain_issues) = Len(HighBand(ranked)) + Len(MediumBand(ranked))

(***************************************************************************)
(* registry.ToolManager.add / remove over the files of tool_defs_dir,      *)
(* src_dir and tests_dir.  A path is the sequence of its parts below the   *)
(* directory; a definition file is [path, data] with data the mapping the  *)
(* YAML file holds.                                                        *)
(***************************************************************************)
\* ToolDefinition.namespace for a name with a dot: name.split(".", 1)[0]
Namespace(name) == Split(name, <<".">>)[1]

\* ToolDefinition.tool_name for a name with a dot: name.split(".", 1)[1]
ToolName(name) == Join(Tail(Split(name, <<".">>)), <<".">>)

\* ToolDefinition.function_name
FunctionName(name) == Replace(ToolName(name), <<"-">>, <<"_">>)

\* ToolPath.to_path(name, base_dir), for a name with a dot
ToPath(name) == <<Namespace(name), ToolName(name) \o <<".", "y", "a", "m", "l">>>>

\* StubGenerator.create_module: the module file
ModuleFile(name) == <<Namespace(name), FunctionName(name) \o <<".", "p", "y">>>>

\* StubGenerator.create_test: the test file
TestFile(name) ==
    <<<<"t", "e", "s", "t", "_">> \o Namespace(name),
      <<"t", "e", "s", "t", "_">> \o FunctionName(name) \o <<".", "p", "y">>>>

ServersDir == <<"_", "s", "e", "r", "v", "e", "r", "s">>

\* _load_tools_from_directory: the definitions of the files outside _servers
LoadToolsFromDirectory(defs) ==
    {d.data : d \in {f \in defs : \A k \in 1..Len(f.path) : f.path[k] # ServersDir}}

\* ToolRegistry.has_tool over the loaded registry
HasTool(defs, name) == \E tool \in LoadToolsFromDirectory(defs) : tool.name = name

\* _core.save_tool: the files after the write
SaveTool(defs, name, description) ==
    {f \in defs : f.path # ToPath(name)}
    \cup {[path |-> ToPath(name), data |-> [name |-> name, description |-> description]]}

\* _core.delete_tool: "path.exists()"
ToolFileExists(defs, name) == \E f \in defs : f.path = ToPath(name)

\* _parse_parameters for the three parameter strings of the model: the
\* parameter list, or that json.loads raises JSONDecodeError
ParametersJson == {"", "[]", "{"}
ParseParameters(parameters_json) ==
    IF parameters_json = "{" THEN "JSONDecodeError" ELSE "[]"

RegNames == {<<"n", "s", ".", "t">>, <<"n", "s", ".", "t", "-", "u">>,
             <<"n", "s", ".", "t", "_", "u">>, <<"_", "s", "e", "r", "v", "e", "r", "s", ".", "x">>,
             <<"t">>}
Descriptions == {"first", "second"}

InitRegistry ==
    /\ tool_defs = {} /\ module_files = {} /\ test_files = {}
    /\ reg_call = <<>> /\ reg_result = ""
    /\ ArchIdle /\ CxIdle /\ RfIdle /\ CallerIdle /\ EntryIdle /\ AnIdle
    /\ ChainIdle /\ TraceIdle /\ McpIdle

nonRegVars == <<archVars, cxVars, rfVars, callVars, entryVars, anVars, chainVars,
               traceVars, mcpVars>>

\* add(name, ...): "if '.' not in name: return Error"
AddWithoutNamespace ==
    \E name \in RegNames, description \in Descriptions, parameters \in ParametersJson :
        /\ ~Contains(name, <<".">>)
        /\ reg_call' = <<"add", name, description, parameters>>
        /\ reg_result' = "Error: Tool name must include namespace"
        /\ UNCHANGED <<nonRegVars, tool_defs, module_files, test_files>>

\* add(name, ...): "except json.JSONDecodeError: return Error"
AddInvalidParameters ==
    \E name \in RegNames, description \in Descriptions, parameters \in ParametersJson :
        /\ Contains(name, <<".">>)
        /\ ParseParameters(parameters) = "JSONDecodeError"
        /\ reg_call' = <<"add", name, description, parameters>>
        /\ reg_result' = "Error: Invalid parameters JSON"
        /\ UNCHANGED <<nonRegVars, tool_defs, module_files, test_files>>

\* add(name, ...): "if registry.has_tool(name): return Error"
AddAlreadyExists ==
    \E name \in RegNames, description \in Descriptions, parameters \in ParametersJson :
        /\ Contains(name, <<".">>)
        /\ ParseParameters(parameters) # "JSONDecodeError"
        /\ HasTool(tool_defs, name)
        /\ reg_call' = <<"add", name, description, parameters>>
        /\ reg_result' = "Error: Tool already exists"
        /\ UNCHANGED <<nonRegVars, tool_defs, module_files, test_files>>

\* add(name, ...): the stubs and the definition file are written
AddCreates ==
    \E name \in RegNames, description \in Descriptions, parameters \in ParametersJson :
        /\ Contains(name, <<".">>)
        /\ ParseParameters(parameters) # "JSONDecodeError"
        /\ ~HasTool(tool_defs, name)
        /\ module_files' = module_files \cup {ModuleFile(name)}
        /\ test_files' = test_files \cup {TestFile(name)}
        /\ tool_defs' = SaveTool(tool_defs, name, description)
        /\ reg_call' = <<"add", name, description, parameters>>
        /\ reg_result' = "Created tool"
        /\ UNCHANGED nonRegVars

\* remove(name): "if not registry.has_tool(name): return Error"
RemoveNotFound ==
    \E name \in RegNames :
        /\ ~HasTool(tool_defs, name)
        /\ reg_call' = <<"remove", name>>
        /\ reg_result' = "Error: Tool not found in registry"
        /\ UNCHANGED <<nonRegVars, tool_defs, module_files, test_files>>

\* remove(name): _core.delete_tool and its two outcomes
RemoveDeletes ==
    \E name \in RegNames :
        /\ HasTool(tool_defs, name)
        /\ reg_call' = <<"remove", name>>
        /\ IF ToolFileExists(tool_defs, name)
           THEN /\ tool_defs' = {f \in tool_defs : f.path # ToPath(name)}
                /\ reg_result' = "Removed tool"
           ELSE /\ tool_defs' = tool_defs
                /\ reg_result' = "Error: Could not delete tool definition"
        /\ UNCHANGED <<nonRegVars, module_files, test_files>>

NextRegistry ==
    \/ AddWithoutNamespace \/ AddInvalidParameters \/ AddAlreadyExists \/ AddCreates
    \/ RemoveNotFound \/ RemoveDeletes

SpecRegistry == InitRegistry /\ [][NextRegistry]_vars

\* A definition file for the name exists below tool_defs_dir.
DefinitionExists(name) == ToolFileExists(tool_defs, name)

\* The step is a well-formed add_tool call: a namespaced name, parameters that parse.
AddCalled ==
    /\ reg_call'[1] = "add"
    /\ Contains(reg_call'[2], <<".">>)
    /\ ParseParameters(reg_call'[4]) # "JSONDecodeError"

RemoveCalled == reg_call'[1] = "remove" /\ Contains(reg_call'[2], <<".">>)

\* C24: in every step, add_tool(n) succeeds if and only if no definition for
\* n exists before the call, remove_tool(n) succeeds if and only if one
\* exists; a rejected add or remove leaves the definition files as they were,
\* and remove_tool leaves the generated module and test files in place.
C24_AddRemoveFollowDefinitions ==
    [][/\ AddCalled => (reg_result' = "Created tool" <=> ~DefinitionExists(reg_call'[2]))
       /\ RemoveCalled => (reg_result' = "Removed tool" <=> DefinitionExists(reg_call'[2]))
       /\ reg_result' \in {"Error: Tool already exists", "Error: Tool not found in registry"}
              => tool_defs' = tool_defs
       /\ reg_call'[1] = "remove" => module_files' = module_files /\ test_files' = test_files
      ]_vars

(***************************************************************************)
(* observe.trace_call(file, tool_name, phase, data, trace_id) on one log   *)
(* file.  The clock advances by one between calls.                         *)
(***************************************************************************)
MaxCalls == 4

\* "duration_ms = None"
NoDuration == -1

\* str(uuid.uuid4())[:8]: any identifier, one in use included
TraceIds == {"t1", "t2"}

\* The data arguments: none, a JSON document, a text that is not JSON, and a
\* JSON text nested deeper than the decoder's recursion limit.
DataArgs == {"None", "{\"a\": 1}", "not json", "[[[[..."}

\* "json.loads(data)": the outcome for the data arguments of the model
JsonLoads(data) ==
    CASE data = "{\"a\": 1}" -> "value"
      [] data = "not json" -> "JSONDecodeError"
      [] OTHER -> "RecursionError"

\* "if data: try: entry[key] = json.loads(data) except JSONDecodeError: ..."
EntryData(data) ==
    IF data = "None" THEN "absent"
    ELSE IF JsonLoads(data) = "JSONDecodeError" THEN "raw" ELSE JsonLoads(data)

\* the call raises out of json.loads
DataRaises(data) == data # "None" /\ JsonLoads(data) = "RecursionError"

InitTrace ==
    /\ active_traces = {} /\ trace_log = <<>> /\ now = 0
    /\ tc_call = <<>> /\ tc_result = <<>> /\ returned_live = {}
    /\ ArchIdle /\ CxIdle /\ RfIdle /\ CallerIdle /\ EntryIdle /\ AnIdle
    /\ ChainIdle /\ RegIdle /\ McpIdle

nonTraceVars == <<archVars, cxVars, rfVars, callVars, entryVars, anVars, chainVars,
                 regVars, mcpVars>>

\* "now = datetime.now(timezone.utc)"
Tick == now < MaxCalls /\ now' = now + 1

\* "_active_traces[new_trace_id] = now"
Activate(new_trace_id) ==
    {t \in active_traces : t.trace_id # new_trace_id}
    \cup {[trace_id |-> new_trace_id, start_time |-> now']}

\* phase == "start": the entry is written and the trace id returned
StartLogs ==
    \E data \in DataArgs, new_trace_id \in TraceIds :
        /\ Tick /\ ~DataRaises(data)
        /\ active_traces' = Activate(new_trace_id)
        /\ trace_log' = Append(trace_log, [timestamp |-> now', trace_id |-> new_trace_id,
                                           phase |-> "start", params |-> EntryData(data)])
        /\ tc_call' = [phase |-> "start", data |-> data, trace_id |-> "None"]
        /\ tc_result' = [trace_id |-> new_trace_id, phase |-> "start"]
        /\ returned_live' = returned_live \cup {new_trace_id}
        /\ UNCHANGED nonTraceVars

\* phase == "start": json.loads raises an exception the handler does not catch
StartRaises ==
    \E data \in DataArgs, new_trace_id \in TraceIds :
        /\ Tick /\ DataRaises(data)
        /\ active_traces' = Activate(new_trace_id)
        /\ tc_call' = [phase |-> "start", data |-> data, trace_id |-> "None"]
        /\ tc_result' = [raised |-> "RecursionError"]
        /\ UNCHANGED <<nonTraceVars, trace_log, returned_live>>

\* phase == "end": "if not trace_id: return error"
EndWithoutTraceId ==
    \E data \in DataArgs :
        /\ Tick
        /\ tc_call' = [phase |-> "end", data |-> data, trace_id |-> "None"]
        /\ tc_result' = [error |-> "trace_id required for phase='end'"]
        /\ UNCHANGED <<nonTraceVars, active_traces, trace_log, returned_live>>

\* "start_time = _active_traces.pop(trace_id, None)" and the duration
DurationMs(trace_id) ==
    IF \E t \in active_traces : t.trace_id = trace_id
    THEN now' - (CHOOSE t \in active_traces : t.trace_id = trace_id).start_time
    ELSE NoDuration

\* phase == "end" with a trace id: the entry is written
EndLogs ==
    \E data \in DataArgs, trace_id \in TraceIds :
        /\ Tick /\ ~DataRaises(data)
        /\ active_traces' = {t \in active_traces : t.trace_id # trace_id}
        /\ trace_log' = Append(trace_log, [timestamp |-> now', trace_id |-> trace_id,
                                           phase |-> "end",
                                           duration_ms |-> DurationMs(trace_id),
                                           result |-> EntryData(data)])
        /\ tc_call' = [phase |-> "end", data |-> data, trace_id |-> trace_id]
        /\ tc_result' = [trace_id |-> trace_id, phase |-> "end",
                         duration_ms |-> DurationMs(trace_id)]
        /\ returned_live' = returned_live \ {trace_id}
        /\ UNCHANGED nonTraceVars

\* phase == "end" with a trace id: json.loads raises after the pop
EndRaises ==
    \E data \in DataArgs, trace_id \in TraceIds :
        /\ Tick /\ DataRaises(data)
        /\ active_traces' = {t \in active_traces : t.trace_id # trace_id}
        /\ tc_call' = [phase |-> "end", data |-> data, trace_id |-> trace_id]
        /\ tc_result' = [raised |-> "RecursionError"]
        /\ returned_live' = returned_live \ {trace_id}
        /\ UNCHANGED <<nonTraceVars, trace_log>>

\* any other phase
InvalidPhase ==
    \E data \in DataArgs, trace_id \in TraceIds \cup {"None"} :
        /\ Tick
        /\ tc_call' = [phase |-> "stop", data |-> data, trace_id |-> trace_id]
        /\ tc_result' = [error |-> "Invalid phase: stop. Use 'start' or 'end'."]
        /\ UNCHANGED <<nonTraceVars, active_traces, trace_log, returned_live>>

NextTrace ==
    \/ StartLogs \/ StartRaises
    \/ EndWithoutTraceId \/ EndLogs \/ EndRaises
    \/ InvalidPhase

SpecTrace == InitTrace /\ [][NextTrace]_vars

\* The call of the step is an end that supplies a trace id.
EndWithIdCalled == tc_call'.phase = "end" /\ tc_call'.trace_id # "None"

IsError(r) == DOMAIN r = {"error"}

\* C25: in every step, an end call with a trace id reports a duration if and
\* only if the id was returned by an earlier start and no end was called with
\* it since; a start and an end with a trace id append exactly one line to the
\* log; an end without trace id and an unknown phase append nothing and
\* return an error object.
C25_EndMatchesStartAndLogsOnce ==
    [][/\ (EndWithIdCalled /\ "duration_ms" \in DOMAIN tc_result')
            => (tc_result'.duration_ms # NoDuration <=> tc_call'.trace_id \in returned_live)
       /\ (tc_call'.phase = "start" \/ EndWithIdCalled)
            => /\ Len(trace_log') = Len(trace_log) + 1
               /\ SubSeq(trace_log', 1, Len(trace_log)) = trace_log
       /\ (tc_call'.phase = "stop" \/ (tc_call'.phase = "end" /\ tc_call'.trace_id = "None"))
            => trace_log' = trace_log /\ IsError(tc_result')
      ]_vars

(***************************************************************************)
(* mcp_client.ExternalServerManager with its ExternalServer objects, and   *)
(* mcp.disconnect.  An object is [session, cm] (the fields _session and    *)
(* _cm, "None" when cleared) with the state of the two contexts behind     *)
(* them: "none", "entered" or "exited".                                    *)
(***************************************************************************)
ServerNames == {"a", "b", "c"}
\* the names with a configuration in _configs (and in the registry file)
Configured == {"a", "b"}

\* ExternalServer(name=..., command=..., args=..., env=...)
NewServer ==
    [session |-> "None", cm |-> "None", session_state |-> "none",
     transport_state |-> "none"]

\* start() up to the point where it returns True
Connected ==
    [session |-> "ClientSession", cm |-> "stdio_client", session_state |-> "entered",
     transport_state |-> "entered"]

\* start() up to the statement that raises: "cm" is self._cm.__aenter__(),
\* "session" is self._session.__aenter__(), "initialize" is initialize() or
\* list_tools(), "params" is a statement before self._cm is assigned.
FailurePoints == {"params", "cm", "session", "initialize"}
FailedAt(point) ==
    CASE point = "params" -> NewServer
      [] point = "cm" -> [NewServer EXCEPT !.cm = "stdio_client"]
      [] point = "session" ->
            [NewServer EXCEPT !.cm = "stdio_client", !.transport_state = "entered",
                              !.session = "ClientSession"]
      [] OTHER -> Connected

\* stop(): the object after it returns; session_raises and cm_raises say
\* whether the __aexit__ of the session and of the transport context raise.
Stop(server, session_raises, cm_raises) ==
    IF server.session # "None" /\ session_raises
    THEN \* "except Exception": nothing after the call is executed
         [server EXCEPT !.session_state = "exited"]
    ELSE LET after == IF server.session # "None"
                      THEN [server EXCEPT !.session_state = "exited", !.session = "None"]
                      ELSE server
         IN  IF after.cm = "None" THEN after
             ELSE IF cm_raises THEN [after EXCEPT !.transport_state = "exited"]
             ELSE [after EXCEPT !.transport_state = "exited", !.cm = "None"]

InitMcp ==
    /\ servers = {} /\ ext = [n \in ServerNames |-> NewServer]
    /\ mcp_call = <<>> /\ stop_returned = {}
    /\ ArchIdle /\ CxIdle /\ RfIdle /\ CallerIdle /\ EntryIdle /\ AnIdle
    /\ ChainIdle /\ RegIdle /\ TraceIdle

nonMcpVars == <<archVars, cxVars, rfVars, callVars, entryVars, anVars, chainVars,
               regVars, traceVars>>

\* start_server(name): "if name in self._servers: return True"
StartAlreadyRunning ==
    \E name \in ServerNames :
        /\ name \in servers
        /\ mcp_call' = <<"start_server", name, TRUE>>
        /\ stop_returned' = {}
        /\ UNCHANGED <<nonMcpVars, servers, ext>>

\* start_server(name): "if not config: return False"
StartNotConfigured ==
    \E name \in ServerNames :
        /\ name \notin servers /\ name \notin Configured
        /\ mcp_call' = <<"start_server", name, FALSE>>
        /\ stop_returned' = {}
        /\ UNCHANGED <<nonMcpVars, servers, ext>>

\* start_server(name): server.start() returns True
StartConnects ==
    \E name \in ServerNames :
        /\ name \notin servers /\ name \in Configured
        /\ ext' = [ext EXCEPT ![name] = Connected]
        /\ servers' = servers \cup {name}
        /\ mcp_call' = <<"start_server", name, TRUE>>
        /\ stop_returned' = {}
        /\ UNCHANGED nonMcpVars

\* start_server(name): server.start() catches an exception, calls stop()
\* and returns False
StartFails ==
    \E name \in ServerNames, point \in FailurePoints, session_raises, cm_raises \in BOOLEAN :
        /\ name \notin servers /\ name \in Configured
        /\ ext' = [ext EXCEPT ![name] = Stop(FailedAt(point), session_raises, cm_raises)]
        /\ mcp_call' = <<"start_server", name, FALSE>>
        /\ stop_returned' = {name}
        /\ UNCHANGED <<nonMcpVars, servers>>

\* disconnect(name): "if not server: return ... is not connected"
DisconnectNotConnected ==
    \E name \in ServerNames :
        /\ name \notin servers
        /\ mcp_call' = <<"disconnect", name, "is not connected">>
        /\ stop_returned' = {}
        /\ UNCHANGED <<nonMcpVars, servers, ext>>

\* disconnect(name): server.stop() and "del manager._servers[name]"
DisconnectNamed ==
    \E name \in ServerNames, session_raises, cm_raises \in BOOLEAN :
        /\ name \in servers
        /\ ext' = [ext EXCEPT ![name] = Stop(ext[name], session_raises, cm_raises)]
        /\ servers' = servers \ {name}
        /\ mcp_call' = <<"disconnect", name, "Disconnected">>
        /\ stop_returned' = {name}
        /\ UNCHANGED nonMcpVars

\* stop_all() (disconnect() without a name): every running server is
\* stopped, then the map is cleared
StopAll ==
    \E session_raises, cm_raises \in [servers -> BOOLEAN] :
        /\ ext' = [n \in ServerNames |->
                     IF n \in servers THEN Stop(ext[n], session_raises[n], cm_raises[n])
                     ELSE ext[n]]
        /\ servers' = {}
        /\ mcp_call' = <<"stop_all", "", "Disconnected">>
        /\ stop_returned' = servers
        /\ UNCHANGED nonMcpVars

NextMcp ==
    \/ StartAlreadyRunning \/ StartNotConfigured \/ StartConnects \/ StartFails
    \/ DisconnectNotConnected \/ DisconnectNamed
    \/ StopAll

SpecMcp == InitMcp /\ [][NextMcp]_vars

\* The session and the transport context of the object are exited and the
\* two fields are cleared.
CleanedUp(server) ==
    /\ server.session = "None" /\ server.cm = "None"
    /\ server.session_state # "entered" /\ server.transport_state # "entered"

\* C30: after stop() has returned for a server (in disconnect, stop_all or a
\* failed start), its session and its transport context are exited and
\* cleared, whether or not exiting the session raised; after stop_all or a
\* named disconnect the server is not in the manager's map of running servers.
C30_StopCleansUpCompletely ==
    /\ \A name \in stop_returned : CleanedUp(ext[name])
    /\ (mcp_call # <<>> /\ mcp_call[1] = "stop_all") => servers = {}
    /\ (mcp_call # <<>> /\ mcp_call[1] = "disconnect" /\ mcp_call[3] = "Disconnected")
          => mcp_call[2] \notin servers

====
